---- MODULE Spec2Model ----
(***************************************************************************)
(* Nether Chronicles (kongbu): the request-fingerprinting cache of the     *)
(* game client.  CacheService (src/services/cacheService.ts) derives keys  *)
(* and keeps the two-tier cache; GameService (src/unnamed/part_001, the    *)
(* cache-backed services/gameService.ts) deduplicates in-flight requests   *)
(* and prefetches; App.tsx wires the foreground and the prefetch calls.    *)
(*                                                                         *)
(* Strings that the code orders (inventory items) are sequences of UTF-16  *)
(* code units; SHA-256 is modelled as an injective digest (collision       *)
(* resistance), so a key is its preimage in a "hex" wrapper.               *)
(***************************************************************************)
EXTENDS Integers, Sequences, FiniteSets, TLC

VARIABLES
  kdHistory,     \* key derivation: the caller's history array
  kdChoice,      \* key derivation: the action
  kdInventory,   \* key derivation: the caller's inventory array
  kdShuffled,    \* key derivation: the same inventory in another order
  kdKeys,        \* key derivation: keys derived so far (function on a subset of {"orig","shuf"})
  localStorage,  \* browser localStorage: storeKey -> item (absent, or the JSON text of a store)
  isEnabled,     \* CacheService.isEnabled (the shared tier's toggle)
  cacheGets,     \* getStory/getImage calls suspended in `await fetchFromServer`
  cachePosts,    \* postToServer requests not answered yet (in the game: sent)
  cacheCalls,    \* number of CacheService get/set calls made so far
  cacheKind,     \* which pair the direct calls use: "story" (setStory/getStory) or "image"
  l1Born,        \* history: storeKey -> (key -> stamp of the call that created the property)
  l1Clock,       \* history: stamp of the latest property creation
  lastSave,      \* history: what the latest saveToLocalStorage call did
  lastSet,       \* history: the setStory/setImage call, if it was the latest CacheService call
  lastGet,       \* history: the latest getStory/getImage call that returned
  lastPost,      \* history: the settled postToServer request of the latest call, a set
  calls,         \* GameService: the continueStory/generateImage calls, in call order
  ops,           \* GameService: ops[c] is the execution of fetchOperation/fetchOp that call c started
  pendingRequests, \* GameService.pendingRequests: key -> execution
  pendingImages, \* GameService.pendingImages: key -> execution
  gameState,     \* App: gameState
  currentResponse, \* App: currentResponse
  typewriter,    \* Typewriter: "none" (not mounted), "typing", "done"
  typed,         \* Typewriter: indexRef.current, the characters emitted so far
  cache,         \* server (src/unnamed/part_003): the Map `cache`, in insertion order
  srvRequests,   \* server: number of requests handled so far
  srvLast,       \* history: the latest request the server handled and its response
  srvAcked,      \* history: key -> data of the POSTs answered 200, not overwritten or evicted since
  disk,          \* server: the file CACHE_FILE
  srvUp,         \* server: the process is running (startup did not throw)
  srvSaved,      \* history: the store at the latest saveCache that wrote the file
  settings,      \* GameService: this.settings
  geminiClient,  \* GameService: this.geminiClient is not null
  envApiKey,     \* process.env.API_KEY
  storedSettings, \* localStorage: the item STORAGE_KEY_SETTINGS
  svcLast        \* history: the latest constructor, updateSettings or fetchStory call

keyVars == <<kdHistory, kdChoice, kdInventory, kdShuffled, kdKeys>>

cacheVars == <<localStorage, isEnabled, cacheGets, cachePosts, cacheCalls, cacheKind,
               l1Born, l1Clock, lastSave, lastSet, lastGet, lastPost>>

appVars == <<gameState, currentResponse, typewriter, typed>>

gameVars == <<calls, ops, pendingRequests, pendingImages, appVars>>

\* what the game leaves alone: the key derivation on its own, the history of
\* the direct CacheService calls, and the server
idleVars == <<keyVars, cacheGets, cacheCalls, cacheKind, l1Born, l1Clock, lastSave,
              lastSet, lastGet, lastPost, cache, srvRequests, srvLast, srvAcked,
              disk, srvUp, srvSaved,
              settings, geminiClient, envApiKey, storedSettings, svcLast>>

diskVars == <<disk, srvUp, srvSaved>>

serviceVars == <<settings, geminiClient, envApiKey, storedSettings, svcLast>>

serverVars == <<cache, srvRequests, srvLast, srvAcked, disk, srvUp, srvSaved>>

vars == <<keyVars, cacheVars, gameVars, serverVars, serviceVars>>

(***************************************************************************)
(* Bounds of the model.                                                    *)
(***************************************************************************)
MaxInventory == 3
MaxKdHistory == 1
MaxCacheCalls == 2
MaxCalls == 3
MaxAppCalls == 4

(***************************************************************************)
(* Strings and Array.prototype.sort() with the default comparator.         *)
(***************************************************************************)
\* inventory item names, as code-unit sequences: "a", "ab", "b"
ItemNames == {<<1>>, <<1, 2>>, <<2>>}

\* a < b in the default sort order: code-unit-wise, a proper prefix first
StrLess(a, b) ==
  \E i \in 1..(Len(b)) :
    /\ \A j \in 1..(i - 1) : j <= Len(a) /\ a[j] = b[j]
    /\ \/ (i = Len(a) + 1)
       \/ (i <= Len(a) /\ a[i] < b[i])

RECURSIVE InsertSorted(_, _)
InsertSorted(x, s) ==
  IF s = <<>> THEN <<x>>
  ELSE IF StrLess(Head(s), x) \/ Head(s) = x
       THEN <<Head(s)>> \o InsertSorted(x, Tail(s))
       ELSE <<x>> \o s

RECURSIVE SortStrings(_)
\* [...inventory].sort(): a sorted copy, the argument is left alone
SortStrings(s) ==
  IF s = <<>> THEN <<>>
  ELSE InsertSorted(s[Len(s)], SortStrings(SubSeq(s, 1, Len(s) - 1)))

(***************************************************************************)
(* CacheService.generateKey / generateImageKey / sha256.                   *)
(***************************************************************************)
\* SHA-256, rendered as hex: injective on its message
sha256(message) == [hex |-> message]

\* variant: the turns are serialised as the caller holds them
cleanHistoryKeepsAll(history) == history

\* history.map(h => ({ role: h.role, text: h.text }))
cleanHistory(history) ==
  [n \in 1..Len(history) |-> [role |-> history[n].role, text |-> history[n].text]]

\* faulty variant: the inventory is serialised in the caller's order
generateKeyUnsorted(history, choice, inventory) ==
  sha256([h |-> cleanHistory(history), c |-> choice, i |-> inventory])

\* JSON.stringify({h, c, i}) is the record: the serialisation is injective
generateKey(history, choice, inventory) ==
  sha256([h |-> cleanHistory(history), c |-> choice, i |-> SortStrings(inventory)])

generateImageKey(prompt) == sha256(prompt)

(***************************************************************************)
(* JavaScript values.  Every value carries its type, so that `x || null`   *)
(* and `if (x)` are decided as the language decides them.                  *)
(***************************************************************************)
Null == [type |-> "null"]
Undefined == [type |-> "undefined"]
Str(s) == [type |-> "string", s |-> s]
Num(n) == [type |-> "number", n |-> n]
Bool(b) == [type |-> "boolean", b |-> b]

\* ToBoolean
Truthy(v) == /\ v.type \notin {"null", "undefined"}
             /\ ~(v.type = "string" /\ v.s = "")
             /\ ~(v.type = "number" /\ v.n = 0)
             /\ ~(v.type = "boolean" /\ ~v.b)

\* v || null
OrNull(v) == IF Truthy(v) THEN v ELSE Null

\* v.name, undefined when v has no such property
Prop(v, name) == IF v.type = "object" /\ name \in DOMAIN v THEN v[name] ELSE Undefined

\* An object used as a dictionary is the sequence of its own properties
\* <<[k, v], ...>> in property order: string keys that are not array indices
\* (every key here is a 64-digit hex digest) enumerate in creation order.
ObjectKeys(store) == [n \in 1..Len(store) |-> store[n].k]

HasProp(store, key) == \E n \in 1..Len(store) : store[n].k = key

\* store[key]
GetProp(store, key) ==
  IF HasProp(store, key)
  THEN store[CHOOSE n \in 1..Len(store) : store[n].k = key].v
  ELSE Undefined

\* delete store[key]
DeleteProp(store, key) == SelectSeq(store, LAMBDA e : e.k # key)

\* store[key] = data: an existing property keeps its place, a new one goes last
SetProp(store, key, data) ==
  IF HasProp(store, key)
  THEN [n \in 1..Len(store) |-> IF store[n].k = key THEN [k |-> key, v |-> data] ELSE store[n]]
  ELSE Append(store, [k |-> key, v |-> data])

(***************************************************************************)
(* CacheService: the L1 stores in localStorage.                            *)
(***************************************************************************)
L1_CACHE_KEY_TEXT == "nether_chronicles_l1_text"
L1_CACHE_KEY_IMG == "nether_chronicles_l1_img"
MAX_LOCAL_ITEMS == 50

StoreKeys == {L1_CACHE_KEY_TEXT, L1_CACHE_KEY_IMG}

\* localStorage.getItem(storeKey) of a key that is not there (null)
NoItem == [present |-> FALSE, json |-> <<>>]

\* JSON.parse(localStorage.getItem(storeKey) || "{}")
ParseStore(item) == IF item.present THEN item.json ELSE <<>>

\* JSON.stringify(store): a property whose value is undefined is left out
StringifyStore(store) ==
  [present |-> TRUE, json |-> SelectSeq(store, LAMBDA e : e.v.type # "undefined")]

getFromLocalStorage(ls, storeKey, itemKey) ==
  OrNull(GetProp(ParseStore(ls[storeKey]), itemKey))

\* faulty variant: `keys.length > MAX_LOCAL_ITEMS`
storeToWriteLate(store, itemKey, data) ==
  LET keys == ObjectKeys(store)
      kept == IF Len(keys) > MAX_LOCAL_ITEMS THEN DeleteProp(store, keys[1]) ELSE store
  IN SetProp(kept, itemKey, data)

\* faulty variant: the newest key is deleted, `delete store[keys[keys.length - 1]]`
storeToWriteNewest(store, itemKey, data) ==
  LET keys == ObjectKeys(store)
      kept == IF Len(keys) >= MAX_LOCAL_ITEMS THEN DeleteProp(store, keys[Len(keys)]) ELSE store
  IN SetProp(kept, itemKey, data)

\* the store that saveToLocalStorage hands to JSON.stringify, lines 127-135
storeToWrite(store, itemKey, data) ==
  LET keys == ObjectKeys(store)
      kept == IF Len(keys) >= MAX_LOCAL_ITEMS THEN DeleteProp(store, keys[1]) ELSE store
  IN SetProp(kept, itemKey, data)

\* writeOk: whether localStorage.setItem accepts the text (FALSE: it throws
\* QuotaExceededError); the catch block removes the whole item
saveToLocalStorage(ls, storeKey, itemKey, data, writeOk) ==
  IF writeOk
  THEN [ls EXCEPT ![storeKey] =
          StringifyStore(storeToWrite(ParseStore(ls[storeKey]), itemKey, data))]
  ELSE [ls EXCEPT ![storeKey] = NoItem]

(***************************************************************************)
(* CacheService: the shared tier (L2), seen from the client.  The remote   *)
(* store is shared between processes, so what a GET answers is the         *)
(* environment's choice: [net, data] with net one of                       *)
(*   "reject"  fetch() rejects (server unreachable)                        *)
(*   "notOk"   a response whose status is not 2xx (404 on a miss)          *)
(*   "badJson" a 2xx response whose body is no JSON                        *)
(*   "ok"      a 2xx response {success, data}                              *)
(***************************************************************************)
Answer(net, data) == [net |-> net, data |-> data]

\* fetchFromServer: [threw, value]
fetchFromServer(answer) ==
  IF answer.net \in {"reject", "badJson"} THEN [threw |-> TRUE, value |-> Undefined]
  ELSE IF answer.net = "notOk" THEN [threw |-> FALSE, value |-> Null]
  ELSE [threw |-> FALSE, value |-> OrNull(answer.data)]

\* getStory, lines 43-48: the value returned at once, or null to go on to L2
getStoryLocal(ls, key) == getFromLocalStorage(ls, L1_CACHE_KEY_TEXT, key)

\* getImage, lines 70-75
getImageLocal(ls, key) ==
  LET local == getFromLocalStorage(ls, L1_CACHE_KEY_IMG, key)
  IN IF Truthy(local) /\ local.type = "string" THEN local ELSE Null

\* faulty variant: no try/catch around the L2 lookup
getStoryRemoteNoCatch(ls, key, fetched, writeOk) ==
  IF fetched.threw THEN [threw |-> TRUE, result |-> Undefined, saved |-> FALSE, ls |-> ls]
  ELSE IF Truthy(fetched.value)
  THEN [threw |-> FALSE, result |-> fetched.value, saved |-> TRUE,
        ls |-> saveToLocalStorage(ls, L1_CACHE_KEY_TEXT, key, fetched.value, writeOk)]
  ELSE [threw |-> FALSE, result |-> Null, saved |-> FALSE, ls |-> ls]

\* getStory, lines 51-66, from the settlement of fetchFromServer on:
\* [threw, result, saved, ls], ls the localStorage it leaves
getStoryRemote(ls, key, fetched, writeOk) ==
  IF fetched.threw THEN [threw |-> FALSE, result |-> Null, saved |-> FALSE, ls |-> ls]
  ELSE IF Truthy(fetched.value)
  THEN [threw |-> FALSE, result |-> fetched.value, saved |-> TRUE,
        ls |-> saveToLocalStorage(ls, L1_CACHE_KEY_TEXT, key, fetched.value, writeOk)]
  ELSE [threw |-> FALSE, result |-> Null, saved |-> FALSE, ls |-> ls]

\* getImage, lines 78-91
getImageRemote(ls, key, fetched, writeOk) ==
  IF fetched.threw THEN [threw |-> FALSE, result |-> Null, saved |-> FALSE, ls |-> ls]
  ELSE IF Truthy(fetched.value) /\ Truthy(Prop(fetched.value, "data"))
  THEN [threw |-> FALSE, result |-> Prop(fetched.value, "data"), saved |-> TRUE,
        ls |-> saveToLocalStorage(ls, L1_CACHE_KEY_IMG, key,
                                  Prop(fetched.value, "data"), writeOk)]
  ELSE [threw |-> FALSE, result |-> Null, saved |-> FALSE, ls |-> ls]

(***************************************************************************)
(* Payloads.                                                               *)
(***************************************************************************)
\* a StoryResponse (src/types.ts), as safeParse returns it
Story(narrative, choices, visualPrompt, isGameOver, add) ==
  [type |-> "object", narrative |-> narrative, choices |-> choices,
   visualPrompt |-> visualPrompt, isGameOver |-> isGameOver,
   inventoryUpdates |-> [add |-> add]]

\* what setImage posts: { data: base64Data }
ImageBody(base64Data) == [type |-> "object", data |-> base64Data]

(***************************************************************************)
(* History variables of the L1 stores: when each property was created,     *)
(* and what the latest saveToLocalStorage call removed.                    *)
(***************************************************************************)
KeySet(store) == {store[n].k : n \in 1..Len(store)}

\* the keys of a store with the smallest creation stamp
Oldest(born) == {k \in DOMAIN born : \A j \in DOMAIN born : born[k] <= born[j]}

NoSave == [store |-> "none", key |-> Null, isNew |-> FALSE, sizeBefore |-> 0,
           sizeAfter |-> 0, lost |-> {}, oldest |-> {}, ok |-> TRUE]

NoSet == [store |-> "none", key |-> Null, data |-> Null, ok |-> TRUE]

NoGet == [kind |-> "none", key |-> Null, result |-> Null, threw |-> FALSE,
          l1 |-> Null, net |-> "none", after |-> NoSet]

NoPost == [key |-> Null, data |-> Null, net |-> "none", threw |-> FALSE, surfaced |-> FALSE]

\* stamps after a call saveToLocalStorage(storeKey, itemKey, ...) that left ls2:
\* itemKey gets a new stamp when the call created its property
BornAfter(storeKey, itemKey, ls2) ==
  LET before == ParseStore(localStorage[storeKey])
      after == ParseStore(ls2[storeKey])
      recreated == /\ HasProp(before, itemKey)
                   /\ Len(after) > 0
                   /\ after[Len(after)].k = itemKey
                   /\ before[Len(before)].k # itemKey
  IN [k \in KeySet(after) |->
        IF k \in KeySet(before) /\ ~(k = itemKey /\ recreated)
        THEN l1Born[storeKey][k]
        ELSE l1Clock + 1]

\* the history of one saveToLocalStorage call that leaves localStorage'
SaveHistory(storeKey, itemKey, writeOk) ==
  LET before == ParseStore(localStorage[storeKey])
      after == ParseStore(localStorage'[storeKey])
  IN /\ l1Born' = [l1Born EXCEPT ![storeKey] = BornAfter(storeKey, itemKey, localStorage')]
     /\ l1Clock' = l1Clock + 1
     /\ lastSave' = [store |-> storeKey, key |-> itemKey,
                     isNew |-> itemKey \notin KeySet(before),
                     sizeBefore |-> Len(before), sizeAfter |-> Len(after),
                     lost |-> KeySet(before) \ KeySet(after),
                     oldest |-> Oldest(l1Born[storeKey]),
                     ok |-> writeOk]

(***************************************************************************)
(* CacheService called directly: setStory, setImage, getStory, getImage,   *)
(* setEnabled, with the L1 stores empty or near capacity at the start.     *)
(***************************************************************************)
TextKey(n) == sha256(n)
ImageKey(n) == sha256(1000 + n)

StoreKeyOf(kind) == IF kind = "story" THEN L1_CACHE_KEY_TEXT ELSE L1_CACHE_KEY_IMG

CacheKeyOf(kind, n) == IF kind = "story" THEN TextKey(n) ELSE ImageKey(n)

CachePayloads(kind) ==
  IF kind = "story"
  THEN {[type |-> "object", narrative |-> "n1"], [type |-> "object", narrative |-> "n2"]}
  ELSE {Str("img1"), Str("img2")}

\* the body of a 2xx answer for a key of this kind
RemoteBodies(kind) ==
  IF kind = "story" THEN CachePayloads("story")
  ELSE {ImageBody(d) : d \in CachePayloads("image")}

Answers(kind) ==
  {Answer(net, Null) : net \in {"reject", "notOk", "badJson"}}
    \cup {Answer("ok", d) : d \in RemoteBodies(kind)}

\* what becomes of a POST: fetch() rejects, an error status, a 2xx answer
PostAnswers == {"reject", "notOk", "ok"}

Kinds == {"story", "image"}

\* keys the calls use: the two oldest of a filled store, and one never stored
CacheKeyIds == {1, 2, MAX_LOCAL_ITEMS + 1}

PrefillSizes == {0, MAX_LOCAL_ITEMS - 1, MAX_LOCAL_ITEMS}

Prefilled(kind, n) ==
  IF n = 0 THEN NoItem
  ELSE StringifyStore([m \in 1..n |->
         [k |-> CacheKeyOf(kind, m),
          v |-> CHOOSE d \in CachePayloads(kind) : TRUE]])

CacheIdle ==
  /\ localStorage = [sk \in StoreKeys |-> NoItem]
  /\ isEnabled = TRUE
  /\ cacheGets = {}
  /\ cachePosts = {}
  /\ cacheCalls = 0
  /\ cacheKind = "story"
  /\ l1Born = [sk \in StoreKeys |-> [k \in {} |-> 0]]
  /\ l1Clock = 0
  /\ lastSave = NoSave
  /\ lastSet = NoSet
  /\ lastGet = NoGet
  /\ lastPost = NoPost

CacheInit ==
  /\ \E n \in PrefillSizes :
       /\ localStorage = [sk \in StoreKeys |->
            Prefilled(IF sk = L1_CACHE_KEY_TEXT THEN "story" ELSE "image", n)]
       /\ l1Born = [sk \in StoreKeys |->
            [k \in {CacheKeyOf(IF sk = L1_CACHE_KEY_TEXT THEN "story" ELSE "image", m) :
                      m \in 1..n} |->
               CHOOSE m \in 1..n :
                 k = CacheKeyOf(IF sk = L1_CACHE_KEY_TEXT THEN "story" ELSE "image", m)]]
       /\ l1Clock = n
  /\ isEnabled = TRUE
  /\ cacheGets = {}
  /\ cachePosts = {}
  /\ cacheCalls = 0
  /\ cacheKind \in Kinds
  /\ lastSave = NoSave
  /\ lastSet = NoSet
  /\ lastGet = NoGet
  /\ lastPost = NoPost

\* setStory(key, data) / setImage(key, base64Data)
CacheSet(kind, key, data, writeOk) ==
  /\ cacheCalls < MaxCacheCalls
  /\ localStorage' = saveToLocalStorage(localStorage, StoreKeyOf(kind), key, data, writeOk)
  /\ SaveHistory(StoreKeyOf(kind), key, writeOk)
  /\ cachePosts' = IF isEnabled
                   THEN cachePosts \cup
                          {[key |-> key,
                            data |-> IF kind = "story" THEN data ELSE ImageBody(data)]}
                   ELSE cachePosts
  /\ lastSet' = [store |-> StoreKeyOf(kind), key |-> key, data |-> data, ok |-> writeOk]
  /\ lastGet' = NoGet
  /\ lastPost' = NoPost
  /\ cacheCalls' = cacheCalls + 1
  /\ UNCHANGED <<isEnabled, cacheGets, cacheKind>>

\* faulty variant: the L2 lookup is attempted whatever isEnabled says
CacheGetIgnoresToggle(kind, key) ==
  /\ cacheCalls < MaxCacheCalls
  /\ LET local == IF kind = "story" THEN getStoryLocal(localStorage, key)
                  ELSE getImageLocal(localStorage, key)
     IN IF Truthy(local)
        THEN /\ lastGet' = [kind |-> kind, key |-> key, result |-> local, threw |-> FALSE,
                            l1 |-> GetProp(ParseStore(localStorage[StoreKeyOf(kind)]), key),
                            net |-> "none", after |-> lastSet]
             /\ UNCHANGED cacheGets
        ELSE /\ cacheGets' = cacheGets \cup
                  {[kind |-> kind, key |-> key, after |-> lastSet,
                    l1 |-> GetProp(ParseStore(localStorage[StoreKeyOf(kind)]), key)]}
             /\ lastGet' = NoGet
  /\ lastSet' = NoSet
  /\ lastSave' = NoSave
  /\ cacheCalls' = cacheCalls + 1
  /\ lastPost' = NoPost
  /\ UNCHANGED <<localStorage, isEnabled, cachePosts, cacheKind, l1Born, l1Clock>>

\* getStory(key) / getImage(key) up to the return or the first await
CacheGet(kind, key) ==
  /\ cacheCalls < MaxCacheCalls
  /\ LET local == IF kind = "story" THEN getStoryLocal(localStorage, key)
                  ELSE getImageLocal(localStorage, key)
     IN IF Truthy(local) \/ ~isEnabled
        THEN /\ lastGet' = [kind |-> kind, key |-> key, result |-> local, threw |-> FALSE,
                            l1 |-> GetProp(ParseStore(localStorage[StoreKeyOf(kind)]), key),
                            net |-> "none", after |-> lastSet]
             /\ UNCHANGED cacheGets
        ELSE /\ cacheGets' = cacheGets \cup
                  {[kind |-> kind, key |-> key, after |-> lastSet,
                    l1 |-> GetProp(ParseStore(localStorage[StoreKeyOf(kind)]), key)]}
             /\ lastGet' = NoGet
  /\ lastSet' = NoSet
  /\ lastSave' = NoSave
  /\ cacheCalls' = cacheCalls + 1
  /\ lastPost' = NoPost
  /\ UNCHANGED <<localStorage, isEnabled, cachePosts, cacheKind, l1Born, l1Clock>>

\* the fetch of a suspended getStory/getImage settles
CacheFetchSettles(g, answer, writeOk) ==
  /\ g \in cacheGets
  /\ LET fetched == fetchFromServer(answer)
         r == IF g.kind = "story"
              THEN getStoryRemote(localStorage, g.key, fetched, writeOk)
              ELSE getImageRemote(localStorage, g.key, fetched, writeOk)
     IN /\ localStorage' = r.ls
        /\ IF r.saved
           THEN SaveHistory(StoreKeyOf(g.kind), g.key, writeOk)
           ELSE /\ UNCHANGED <<l1Born, l1Clock>>
                /\ lastSave' = NoSave
        /\ lastGet' = [kind |-> g.kind, key |-> g.key, result |-> r.result,
                       threw |-> r.threw, l1 |-> g.l1, net |-> answer.net,
                       after |-> g.after]
  /\ cacheGets' = cacheGets \ {g}
  /\ lastSet' = NoSet
  /\ UNCHANGED <<isEnabled, cachePosts, cacheCalls, cacheKind, lastPost>>

\* postToServer, lines 156-163: the promise rejects when fetch() rejects; the
\* status of a response is not looked at
postToServer(net) == [threw |-> net = "reject"]

\* what setStory/setImage posted for the entry of the latest set call
PostOf(set) ==
  [key |-> set.key,
   data |-> IF set.store = L1_CACHE_KEY_IMG THEN ImageBody(set.data) ELSE set.data]

\* a postToServer request settles, lines 102 and 112: `.catch(() => {})` ends
\* a rejection, nothing is sent again, and the promise setStory/setImage
\* returned was resolved when the request was sent
CachePostSettles(p, net) ==
  /\ p \in cachePosts
  /\ cachePosts' = cachePosts \ {p}
  /\ lastPost' = IF p = PostOf(lastSet)
                 THEN [key |-> p.key, data |-> p.data, net |-> net,
                       threw |-> postToServer(net).threw, surfaced |-> FALSE]
                 ELSE lastPost
  /\ UNCHANGED <<localStorage, isEnabled, cacheGets, cacheCalls, cacheKind,
                 l1Born, l1Clock, lastSave, lastSet, lastGet>>

\* setEnabled(enabled)
CacheSetEnabled(enabled) ==
  /\ enabled # isEnabled
  /\ isEnabled' = enabled
  /\ UNCHANGED <<localStorage, cacheGets, cachePosts, cacheCalls, cacheKind,
                 l1Born, l1Clock, lastSave, lastSet, lastGet, lastPost>>

(***************************************************************************)
(* GameService (src/unnamed/part_001): continueStory, preloadChoices and   *)
(* generateImage.  A call is suspended in `await generateKey` ("keygen"),  *)
(* then awaits the promise of an execution ("awaiting").  An execution of  *)
(* fetchOperation / fetchOp awaits the cache ("cache"), then the           *)
(* generation collaborator ("generate"), and ends "resolved" or            *)
(* "rejected".  A promise is identified with the execution that made it.   *)
(*                                                                         *)
(* An action is one task of the event loop: the arrival of a digest or of  *)
(* an answer, with the microtasks it triggers.  The continuations of the   *)
(* callers that await a promise are microtasks of the task that settles    *)
(* it: they run in the action that settles the execution, after its        *)
(* finally block.                                                          *)
(***************************************************************************)
Settled == {"resolved", "rejected"}

InFlight == {"cache", "generate"}

EmptyMap == [k \in {} |-> 0]

\* Map.prototype.set
MapSet(map, k, v) == [x \in DOMAIN map \cup {k} |-> IF x = k THEN v ELSE map[x]]

\* Map.prototype.delete
MapDelete(map, k) == [x \in DOMAIN map \ {k} |-> map[x]]

\* generateImage: aesthetic + prompt
finalPrompt(prompt) == [aesthetic |-> "Chinese folklore horror", prompt |-> prompt]

\* calls of the same kind and key that had not settled when this one was made
Unsettled(before, kind, key) ==
  {c \in 1..Len(before) :
     before[c].kind = kind /\ before[c].key = key /\ before[c].pc \notin Settled}

\* continueStory(history, choice, inventory) up to `await generateKey`; the
\* record keeps the arguments that the closures of the App use afterwards
continueStory(before, origin, history, choice, inventory, warm) ==
  [kind |-> "story", origin |-> origin,
   key |-> generateKey(history, choice, inventory),
   pc |-> "keygen", op |-> 0, result |-> Null,
   history |-> IF origin = "api" THEN <<>> ELSE history,
   choice |-> choice,
   inventory |-> IF origin = "api" THEN <<>> ELSE inventory,
   overlaps |-> Unsettled(before, "story", generateKey(history, choice, inventory)),
   warm |-> warm, lateJoin |-> FALSE]

\* generateImage(prompt) up to `await generateImageKey`
generateImage(before, origin, prompt) ==
  [kind |-> "image", origin |-> origin,
   key |-> generateImageKey(finalPrompt(prompt)),
   pc |-> "keygen", op |-> 0, result |-> Null,
   history |-> <<>>, choice |-> prompt, inventory |-> <<>>,
   overlaps |-> Unsettled(before, "image", generateImageKey(finalPrompt(prompt))),
   warm |-> FALSE, lateJoin |-> FALSE]

\* preloadChoices(history, choices, inventory): one continueStory per choice
preloadChoices(before, history, choices, inventory) ==
  before \o [n \in 1..Len(choices) |->
               continueStory(before, "prefetch", history, choices[n], inventory, FALSE)]

\* fetchOperation() / fetchOp() up to `await getStory` / `await getImage`:
\* local is what the L1 lookup found, viaL2 whether the L2 request was sent
Execution(kind, key, local, enabled) ==
  [kind |-> kind, key |-> key, pc |-> "cache", local |-> local,
   viaL2 |-> ~Truthy(local) /\ enabled,
   invoked |-> 0, result |-> Null,
   own |-> "none", ownValue |-> Null, peers |-> {}]

\* a call that has started no execution
NoExecution ==
  [kind |-> "none", key |-> Null, pc |-> "none", local |-> Null, viaL2 |-> FALSE,
   invoked |-> 0, result |-> Null, own |-> "none", ownValue |-> Null, peers |-> {}]

\* ops for n calls: the new calls have started nothing
Pad(executions, n) ==
  executions \o [i \in 1..(n - Len(executions)) |-> NoExecution]

\* executions other than o that are in flight
Peers(o) == {p \in 1..Len(ops) : p # o /\ ops[p].pc \in InFlight}

\* what fetchStory / the image generation can answer
StoryOutcome(ok, value) == [ok |-> ok, value |-> value]

\* the error a rejected promise carries
Failure == [type |-> "error"]

(***************************************************************************)
(* App (src/App.tsx): what handleGameResponse makes of a response.         *)
(***************************************************************************)
Range(s) == {s[n] : n \in 1..Len(s)}

\* handleGameResponse, lines 112-118: push the items not yet included
RECURSIVE AddItems(_, _)
AddItems(inventory, add) ==
  IF add = <<>> THEN inventory
  ELSE AddItems(IF Head(add) \in Range(inventory) THEN inventory
                ELSE Append(inventory, Head(add)),
                Tail(add))

\* handleGameResponse, lines 108-131: inventory is the one of the render that
\* made the handler, prev the state the updater function receives
handleGameResponse(prev, inventory, response) ==
  [prev EXCEPT !.history = Append(@, [role |-> "model", text |-> response.narrative]),
               !.inventory = AddItems(inventory, response.inventoryUpdates.add),
               !.isGameOver = response.isGameOver,
               !.loadingText = FALSE,
               !.error = FALSE]

InitialGameState ==
  [history |-> <<>>, inventory |-> <<>>, isGameOver |-> FALSE, gameStarted |-> FALSE,
   loadingText |-> FALSE, error |-> FALSE]

(***************************************************************************)
(* The continuations of the calls that await a promise.                    *)
(***************************************************************************)
\* the calls of current that await the promise of an execution in os
Awaiting(current, os) ==
  {c \in 1..Len(current) : current[c].pc = "awaiting" /\ current[c].op \in os}

\* the calls once those have received the outcome
Received(current, os, pc, result) ==
  [c \in 1..Len(current) |->
     IF c \in Awaiting(current, os)
     THEN [current[c] EXCEPT !.pc = pc, !.result = result]
     ELSE current[c]]

\* the callers that go on to generateImage(response.visualPrompt):
\* preloadChoices, lines 182-186, and handleGameResponse, lines 143-145
Chains(current, os, pc, result) ==
  SelectSeq([c \in 1..Len(current) |-> c],
            LAMBDA c : /\ c \in Awaiting(current, os)
                       /\ pc = "resolved"
                       /\ current[c].kind = "story" /\ current[c].origin # "api"
                       /\ result.visualPrompt # "")

\* variant: the callback of preloadChoices hands the outcome of its candidate
\* to the App as startGame and handleChoice do
ForegroundWithPrefetch(current, os) ==
  {c \in Awaiting(current, os) :
     current[c].kind = "story" /\ current[c].origin \in {"start", "choice", "prefetch"}}

\* the caller that is startGame or handleChoice; the buttons are not shown
\* while loadingText is set, so one at most is waiting
Foreground(current, os) ==
  {c \in Awaiting(current, os) : current[c].origin \in {"start", "choice"}}

\* the executions os have settled with (pc, result) and every call that
\* awaits one of them returns: to a client, to preloadChoices (lines
\* 179-189), to startGame (lines 69-78) or to handleChoice (lines 89-104);
\* limit bounds the calls of a run
Deliver(current, os, pc, result, limit) ==
  /\ LET received == Received(current, os, pc, result)
         chains == Chains(current, os, pc, result)
     IN /\ Len(current) + Len(chains) <= limit
        /\ calls' = received \o
                      [n \in 1..Len(chains) |->
                         generateImage(received,
                                       IF current[chains[n]].origin = "prefetch"
                                       THEN "prefetch" ELSE "app",
                                       result.visualPrompt)]
  /\ IF Foreground(current, os) = {}
     THEN UNCHANGED appVars
     ELSE LET c == CHOOSE f \in Foreground(current, os) : TRUE
          IN IF pc = "resolved"
             THEN /\ currentResponse' = result
                  /\ gameState' = handleGameResponse(
                       IF current[c].origin = "choice"
                       THEN [gameState EXCEPT !.history = current[c].history]
                       ELSE gameState,
                       current[c].inventory, result)
                  /\ typewriter' = "typing"
                  /\ typed' = 0
             ELSE /\ gameState' = [gameState EXCEPT !.loadingText = FALSE, !.error = TRUE]
                  /\ UNCHANGED <<currentResponse, typewriter, typed>>

\* the execution goes on: no call returns
NoDelivery == UNCHANGED <<calls, appVars>>

(***************************************************************************)
(* The tasks of GameService.                                               *)
(***************************************************************************)
\* continueStory after `await generateKey`, lines 137-168; the promise of a
\* settled execution is received at once
ContinueStoryResume(c, limit) ==
  /\ calls[c].kind = "story" /\ calls[c].pc = "keygen"
  /\ LET cacheKey == calls[c].key
     IN IF cacheKey \in DOMAIN pendingRequests
        THEN LET o == pendingRequests[cacheKey]
                 joined == [calls EXCEPT ![c].pc = "awaiting", ![c].op = o,
                                         ![c].lateJoin = ops[o].pc \in Settled]
             IN /\ IF ops[o].pc \in Settled
                   THEN Deliver(joined, {o}, ops[o].pc, ops[o].result, limit)
                   ELSE calls' = joined /\ UNCHANGED appVars
                /\ ops' = Pad(ops, Len(calls'))
                /\ UNCHANGED pendingRequests
        ELSE /\ ops' = [ops EXCEPT ![c] = Execution("story", cacheKey,
                                   getStoryLocal(localStorage, cacheKey), isEnabled)]
             /\ pendingRequests' = MapSet(pendingRequests, cacheKey, c)
             /\ calls' = [calls EXCEPT ![c].pc = "awaiting", ![c].op = c]
             /\ UNCHANGED appVars
  /\ UNCHANGED <<pendingImages, localStorage, isEnabled, cachePosts, idleVars>>

\* generateImage after `await generateImageKey`, lines 315-383
GenerateImageResume(c) ==
  /\ calls[c].kind = "image" /\ calls[c].pc = "keygen"
  /\ LET cacheKey == calls[c].key
     IN IF cacheKey \in DOMAIN pendingImages
        THEN LET o == pendingImages[cacheKey]
                 joined == [calls EXCEPT ![c].pc = "awaiting", ![c].op = o,
                                         ![c].lateJoin = ops[o].pc \in Settled]
             IN /\ calls' = IF ops[o].pc \in Settled
                            THEN Received(joined, {o}, ops[o].pc, ops[o].result)
                            ELSE joined
                /\ UNCHANGED <<ops, pendingImages>>
        ELSE /\ ops' = [ops EXCEPT ![c] = Execution("image", cacheKey,
                                   getImageLocal(localStorage, cacheKey), isEnabled)]
             /\ pendingImages' = MapSet(pendingImages, cacheKey, c)
             /\ calls' = [calls EXCEPT ![c].pc = "awaiting", ![c].op = c]
  /\ UNCHANGED <<pendingRequests, appVars, localStorage, isEnabled, cachePosts, idleVars>>

\* fetchOperation: `await getStory(cacheKey)` settles, lines 146-153: a hit is
\* returned through the finally block, a miss calls fetchStory
FetchOperationCached(o, answer, writeOk, limit) ==
  /\ ops[o].kind = "story" /\ ops[o].pc = "cache"
  /\ LET cacheKey == ops[o].key
         r == IF ops[o].viaL2
              THEN getStoryRemote(localStorage, cacheKey, fetchFromServer(answer), writeOk)
              ELSE [threw |-> FALSE, result |-> ops[o].local, saved |-> FALSE,
                    ls |-> localStorage]
     IN /\ localStorage' = r.ls
        /\ IF r.threw
           THEN /\ Deliver(calls, {o}, "rejected", Failure, limit)
                /\ ops' = Pad([ops EXCEPT ![o].pc = "rejected", ![o].result = Failure,
                                          ![o].own = "failed", ![o].ownValue = Failure,
                                          ![o].peers = Peers(o)],
                              Len(calls'))
                /\ pendingRequests' = MapDelete(pendingRequests, cacheKey)
           ELSE IF Truthy(r.result)
           THEN /\ Deliver(calls, {o}, "resolved", r.result, limit)
                /\ ops' = Pad([ops EXCEPT ![o].pc = "resolved", ![o].result = r.result,
                                          ![o].own = "cache", ![o].ownValue = r.result],
                              Len(calls'))
                /\ pendingRequests' = MapDelete(pendingRequests, cacheKey)
           ELSE /\ ops' = [ops EXCEPT ![o].pc = "generate", ![o].invoked = @ + 1]
                /\ UNCHANGED pendingRequests
                /\ NoDelivery
  /\ UNCHANGED <<pendingImages, isEnabled, cachePosts, idleVars>>

\* fetchOperation without the finally block: the entry is deleted on the
\* success path only
FetchOperationGeneratedNoFinally(o, outcome, writeOk, limit) ==
  /\ ops[o].kind = "story" /\ ops[o].pc = "generate"
  /\ IF outcome.ok
     THEN /\ localStorage' = saveToLocalStorage(localStorage, L1_CACHE_KEY_TEXT,
                                                ops[o].key, outcome.value, writeOk)
          /\ cachePosts' = IF isEnabled
                           THEN cachePosts \cup {[key |-> ops[o].key, data |-> outcome.value]}
                           ELSE cachePosts
          /\ Deliver(calls, {o}, "resolved", outcome.value, limit)
          /\ ops' = Pad([ops EXCEPT ![o].pc = "resolved", ![o].result = outcome.value,
                                    ![o].own = "generated", ![o].ownValue = outcome.value],
                        Len(calls'))
          /\ pendingRequests' = MapDelete(pendingRequests, ops[o].key)
     ELSE /\ Deliver(calls, {o}, "rejected", Failure, limit)
          /\ ops' = Pad([ops EXCEPT ![o].pc = "rejected", ![o].result = Failure,
                                    ![o].own = "failed", ![o].ownValue = Failure,
                                    ![o].peers = Peers(o)],
                        Len(calls'))
          /\ UNCHANGED <<localStorage, cachePosts, pendingRequests>>
  /\ UNCHANGED <<pendingImages, isEnabled, idleVars>>

\* fetchOperation where one failure rejects every story execution in flight
FetchOperationGeneratedFailsAll(o, outcome, writeOk, limit) ==
  /\ ops[o].kind = "story" /\ ops[o].pc = "generate"
  /\ IF outcome.ok
     THEN /\ localStorage' = saveToLocalStorage(localStorage, L1_CACHE_KEY_TEXT,
                                                ops[o].key, outcome.value, writeOk)
          /\ cachePosts' = IF isEnabled
                           THEN cachePosts \cup {[key |-> ops[o].key, data |-> outcome.value]}
                           ELSE cachePosts
          /\ Deliver(calls, {o}, "resolved", outcome.value, limit)
          /\ ops' = Pad([ops EXCEPT ![o].pc = "resolved", ![o].result = outcome.value,
                                    ![o].own = "generated", ![o].ownValue = outcome.value],
                        Len(calls'))
          /\ pendingRequests' = MapDelete(pendingRequests, ops[o].key)
     ELSE /\ Deliver(calls,
                     {p \in 1..Len(ops) : ops[p].kind = "story" /\ ops[p].pc \in InFlight},
                     "rejected", Failure, limit)
          /\ ops' = [p \in 1..Len(ops) |->
                       IF p = o
                       THEN [ops[p] EXCEPT !.pc = "rejected", !.result = Failure,
                                           !.own = "failed", !.ownValue = Failure,
                                           !.peers = Peers(o)]
                       ELSE IF ops[p].kind = "story" /\ ops[p].pc \in InFlight
                       THEN [ops[p] EXCEPT !.pc = "rejected", !.result = Failure]
                       ELSE ops[p]]
          /\ pendingRequests' = EmptyMap
          /\ UNCHANGED <<localStorage, cachePosts>>
  /\ UNCHANGED <<pendingImages, isEnabled, idleVars>>

\* variant: setStory sends the response to the shared tier only
FetchOperationGeneratedSkipsL1(o, outcome, writeOk, limit) ==
  /\ ops[o].kind = "story" /\ ops[o].pc = "generate"
  /\ IF outcome.ok
     THEN /\ cachePosts' = IF isEnabled
                           THEN cachePosts \cup {[key |-> ops[o].key, data |-> outcome.value]}
                           ELSE cachePosts
          /\ Deliver(calls, {o}, "resolved", outcome.value, limit)
          /\ ops' = Pad([ops EXCEPT ![o].pc = "resolved", ![o].result = outcome.value,
                                    ![o].own = "generated", ![o].ownValue = outcome.value],
                        Len(calls'))
     ELSE /\ Deliver(calls, {o}, "rejected", Failure, limit)
          /\ ops' = Pad([ops EXCEPT ![o].pc = "rejected", ![o].result = Failure,
                                    ![o].own = "failed", ![o].ownValue = Failure,
                                    ![o].peers = Peers(o)],
                        Len(calls'))
          /\ UNCHANGED cachePosts
  /\ UNCHANGED localStorage
  /\ pendingRequests' = MapDelete(pendingRequests, ops[o].key)
  /\ UNCHANGED <<pendingImages, isEnabled, idleVars>>

\* variant: setStory is called in the finally block, with what there is
FetchOperationGeneratedWritesAlways(o, outcome, writeOk, limit) ==
  /\ ops[o].kind = "story" /\ ops[o].pc = "generate"
  /\ localStorage' = saveToLocalStorage(localStorage, L1_CACHE_KEY_TEXT, ops[o].key,
                                        IF outcome.ok THEN outcome.value ELSE Failure,
                                        writeOk)
  /\ cachePosts' = IF isEnabled
                   THEN cachePosts \cup
                          {[key |-> ops[o].key,
                            data |-> IF outcome.ok THEN outcome.value ELSE Failure]}
                   ELSE cachePosts
  /\ IF outcome.ok
     THEN /\ Deliver(calls, {o}, "resolved", outcome.value, limit)
          /\ ops' = Pad([ops EXCEPT ![o].pc = "resolved", ![o].result = outcome.value,
                                    ![o].own = "generated", ![o].ownValue = outcome.value],
                        Len(calls'))
     ELSE /\ Deliver(calls, {o}, "rejected", Failure, limit)
          /\ ops' = Pad([ops EXCEPT ![o].pc = "rejected", ![o].result = Failure,
                                    ![o].own = "failed", ![o].ownValue = Failure,
                                    ![o].peers = Peers(o)],
                        Len(calls'))
  /\ pendingRequests' = MapDelete(pendingRequests, ops[o].key)
  /\ UNCHANGED <<pendingImages, isEnabled, idleVars>>

\* fetchOperation: `await fetchStory(...)` settles, lines 153-162: setStory
\* runs up to its return (L1 write, L2 request sent), the finally block
\* deletes the entry, then the callers receive the outcome
FetchOperationGenerated(o, outcome, writeOk, limit) ==
  /\ ops[o].kind = "story" /\ ops[o].pc = "generate"
  /\ IF outcome.ok
     THEN /\ localStorage' = saveToLocalStorage(localStorage, L1_CACHE_KEY_TEXT,
                                                ops[o].key, outcome.value, writeOk)
          /\ cachePosts' = IF isEnabled
                           THEN cachePosts \cup {[key |-> ops[o].key, data |-> outcome.value]}
                           ELSE cachePosts
          /\ Deliver(calls, {o}, "resolved", outcome.value, limit)
          /\ ops' = Pad([ops EXCEPT ![o].pc = "resolved", ![o].result = outcome.value,
                                    ![o].own = "generated", ![o].ownValue = outcome.value],
                        Len(calls'))
     ELSE /\ Deliver(calls, {o}, "rejected", Failure, limit)
          /\ ops' = Pad([ops EXCEPT ![o].pc = "rejected", ![o].result = Failure,
                                    ![o].own = "failed", ![o].ownValue = Failure,
                                    ![o].peers = Peers(o)],
                        Len(calls'))
          /\ UNCHANGED <<localStorage, cachePosts>>
  /\ pendingRequests' = MapDelete(pendingRequests, ops[o].key)
  /\ UNCHANGED <<pendingImages, isEnabled, idleVars>>

\* fetchOp: `await getImage(cacheKey)` settles, lines 323-331
FetchOpCached(o, answer, writeOk) ==
  /\ ops[o].kind = "image" /\ ops[o].pc = "cache"
  /\ LET cacheKey == ops[o].key
         r == IF ops[o].viaL2
              THEN getImageRemote(localStorage, cacheKey, fetchFromServer(answer), writeOk)
              ELSE [threw |-> FALSE, result |-> ops[o].local, saved |-> FALSE,
                    ls |-> localStorage]
     IN /\ localStorage' = r.ls
        /\ IF r.threw
           THEN /\ ops' = [ops EXCEPT ![o].pc = "resolved", ![o].result = Null,
                                      ![o].own = "failed", ![o].ownValue = Null,
                                      ![o].peers = Peers(o)]
                /\ pendingImages' = MapDelete(pendingImages, cacheKey)
                /\ calls' = Received(calls, {o}, "resolved", Null)
           ELSE IF Truthy(r.result)
           THEN /\ ops' = [ops EXCEPT ![o].pc = "resolved", ![o].result = r.result,
                                      ![o].own = "cache", ![o].ownValue = r.result]
                /\ pendingImages' = MapDelete(pendingImages, cacheKey)
                /\ calls' = Received(calls, {o}, "resolved", r.result)
           ELSE /\ ops' = [ops EXCEPT ![o].pc = "generate", ![o].invoked = @ + 1]
                /\ UNCHANGED <<pendingImages, calls>>
  /\ UNCHANGED <<pendingRequests, appVars, isEnabled, cachePosts, idleVars>>

\* variant: fetchOp answers null whenever it has saved nothing
imageUrlOrNull(outcome) == Null

\* what fetchOp returns when it saves nothing, lines 371-375: imageUrl as the
\* generation left it (null, or the empty string that content.trim() gave),
\* and null from the catch block
imageUrl(outcome) == IF outcome.ok THEN outcome.value ELSE Null

\* fetchOp without the finally block and with no delete on the other paths
FetchOpGeneratedKeepsEntry(o, outcome, writeOk) ==
  /\ ops[o].kind = "image" /\ ops[o].pc = "generate"
  /\ IF outcome.ok /\ Truthy(outcome.value)
     THEN /\ localStorage' = saveToLocalStorage(localStorage, L1_CACHE_KEY_IMG,
                                                ops[o].key, outcome.value, writeOk)
          /\ cachePosts' = IF isEnabled
                           THEN cachePosts \cup
                                  {[key |-> ops[o].key, data |-> ImageBody(outcome.value)]}
                           ELSE cachePosts
          /\ ops' = [ops EXCEPT ![o].pc = "resolved", ![o].result = outcome.value,
                                ![o].own = "generated", ![o].ownValue = outcome.value]
          /\ calls' = Received(calls, {o}, "resolved", outcome.value)
     ELSE /\ ops' = [ops EXCEPT ![o].pc = "resolved", ![o].result = imageUrl(outcome),
                                ![o].own = IF outcome.ok THEN "generated" ELSE "failed",
                                ![o].ownValue = imageUrl(outcome),
                                ![o].peers = IF outcome.ok THEN {} ELSE Peers(o)]
          /\ calls' = Received(calls, {o}, "resolved", imageUrl(outcome))
          /\ UNCHANGED <<localStorage, cachePosts>>
  /\ UNCHANGED <<pendingRequests, pendingImages, appVars, isEnabled, idleVars>>

\* fetchOp: the image generation settles, lines 332-378: a URL is saved by
\* setImage and returned; no image, or an exception, gives null; the finally
\* block deletes the entry, then the callers receive the outcome
FetchOpGenerated(o, outcome, writeOk) ==
  /\ ops[o].kind = "image" /\ ops[o].pc = "generate"
  /\ IF outcome.ok /\ Truthy(outcome.value)
     THEN /\ localStorage' = saveToLocalStorage(localStorage, L1_CACHE_KEY_IMG,
                                                ops[o].key, outcome.value, writeOk)
          /\ cachePosts' = IF isEnabled
                           THEN cachePosts \cup
                                  {[key |-> ops[o].key, data |-> ImageBody(outcome.value)]}
                           ELSE cachePosts
          /\ ops' = [ops EXCEPT ![o].pc = "resolved", ![o].result = outcome.value,
                                ![o].own = "generated", ![o].ownValue = outcome.value]
          /\ calls' = Received(calls, {o}, "resolved", outcome.value)
     ELSE /\ ops' = [ops EXCEPT ![o].pc = "resolved", ![o].result = imageUrl(outcome),
                                ![o].own = IF outcome.ok THEN "generated" ELSE "failed",
                                ![o].ownValue = imageUrl(outcome),
                                ![o].peers = IF outcome.ok THEN {} ELSE Peers(o)]
          /\ calls' = Received(calls, {o}, "resolved", imageUrl(outcome))
          /\ UNCHANGED <<localStorage, cachePosts>>
  /\ pendingImages' = MapDelete(pendingImages, ops[o].key)
  /\ UNCHANGED <<pendingRequests, appVars, isEnabled, idleVars>>

(***************************************************************************)
(* safeParse (src/unnamed/part_001): from the collaborator's text to a     *)
(* response.                                                               *)
(***************************************************************************)
\* the body of a request: a text JSON.parse accepts, as the value it parses
\* to, or a text it rejects
JsonText(v) == [parses |-> TRUE, value |-> v]

Garbage == [parses |-> FALSE, value |-> Undefined]

\* ---- the collaborator's reply ----
\* a text, by what safeParse makes of it: whether /\{[\s\S]*\}/ matches, and
\* what JSON.parse makes of jsonStr (the match if there is one, else the text)
StringText(matched, json) ==
  [type |-> "string", empty |-> FALSE, matched |-> matched, json |-> json]

EmptyText == [type |-> "string", empty |-> TRUE, matched |-> FALSE, json |-> Garbage]

Array(items) == [type |-> "array", items |-> items]

\* the JSON objects a reply may hold
ReplyObjects ==
  {[f \in fields |-> CASE f = "type" -> "object"
                       [] f = "narrative" -> n
                       [] f = "choices" -> c
                       [] f = "isGameOver" -> Bool(FALSE)] :
     fields \in {{"type"} \cup extra : extra \in SUBSET {"narrative", "choices", "isGameOver"}},
     n \in {Str(""), Str("n1")},
     c \in {Array(<<>>), Array(<<"c1", "c2">>), Str("c1"), Null}}

ReplyTexts ==
  {Null, EmptyText,
   StringText(FALSE, Garbage), StringText(TRUE, Garbage),
   StringText(FALSE, JsonText(Null)), StringText(FALSE, JsonText(Num(5))),
   StringText(FALSE, JsonText(Array(<<>>)))}
    \cup {StringText(TRUE, JsonText(o)) : o \in ReplyObjects}

Reply(kind, text) == [kind |-> kind, text |-> text]

\* the request is rejected, the answer carries an error, the answer has no
\* choices, or it has a content
Replies ==
  {Reply(k, Null) : k \in {"reject", "error", "noChoices"}}
    \cup {Reply("content", t) : t \in ReplyTexts}

\* the object safeParse returns from its catch block
Fallback ==
  [type |-> "object", narrative |-> Str("fallback"), choices |-> Array(<<"retry">>),
   visualPrompt |-> Str("static"), isGameOver |-> Bool(FALSE),
   flashReveal |-> Bool(FALSE), mood |-> Str("tense")]

WithField(v, name, value) ==
  [f \in DOMAIN v \cup {name} |-> IF f = name THEN value ELSE v[f]]

Field(v, name) == IF name \in DOMAIN v THEN v[name] ELSE Undefined

\* safeParse, lines 41-50: "Ensure critical fields exist"
Ensured(parsed) ==
  LET choices == Field(parsed, "choices")
      withChoices == IF ~Truthy(choices) \/ choices.type # "array"
                     THEN WithField(parsed, "choices", Array(<<>>)) ELSE parsed
  IN  IF ~Truthy(Field(withChoices, "narrative"))
      THEN WithField(withChoices, "narrative", Str("......")) ELSE withChoices

\* variant: the catch block reads nothing of the text
safeParseQuietCatch(text) ==
  IF text.type # "string" THEN StoryOutcome(TRUE, Fallback)
  ELSE IF ~text.json.parses THEN StoryOutcome(TRUE, Fallback)
  ELSE IF text.json.value.type \notin {"object", "array"}
  THEN StoryOutcome(TRUE, Fallback)
  ELSE StoryOutcome(TRUE, Ensured(text.json.value))

\* safeParse(text).  text.match throws for a text that is no string, and so
\* does text.substring in the catch block.  JSON.parse throws for an
\* unparsable jsonStr; reading a property of null throws; assigning a property
\* of a number throws in strict code (the file is a module).  All three are
\* caught.
safeParse(text) ==
  IF text.type # "string" THEN StoryOutcome(FALSE, Failure)
  ELSE IF ~text.json.parses THEN StoryOutcome(TRUE, Fallback)
  ELSE IF text.json.value.type \notin {"object", "array"}
  THEN StoryOutcome(TRUE, Fallback)
  ELSE StoryOutcome(TRUE, Ensured(text.json.value))

(***************************************************************************)
(* The collaborators' answers in the game.                                 *)
(***************************************************************************)
\* a scene that goes on (two choices, no image), and an ending with an image
\* that adds an item and still offers a choice
Responses ==
  {Story("n1", <<"burn", "leave">>, "", FALSE, <<>>),
   Story("n2", <<"leave">>, "p1", TRUE, <<<<1>>>>)}

StoryOutcomes == {StoryOutcome(TRUE, r) : r \in Responses} \cup {StoryOutcome(FALSE, Null)}

\* the response safeParse returned, as the game holds it (no inventoryUpdates:
\* nothing to add)
StoryOf(value) ==
  Story(value.narrative.s, value.choices.items, value.visualPrompt.s,
        value.isGameOver.b, <<>>)

\* a text of the collaborator that is no JSON
MalformedText == StringText(FALSE, Garbage)

\* fetchStory's outcome for the malformed text: what safeParse makes of it
MalformedOutcome ==
  LET parsed == safeParse(MalformedText)
  IN  StoryOutcome(parsed.ok, StoryOf(parsed.value))

\* for the clients other than the App: one scene, a malformed text, or a
\* failure
ApiStoryOutcomes ==
  {StoryOutcome(TRUE, Story("n1", <<"burn", "leave">>, "", FALSE, <<>>)),
   MalformedOutcome,
   StoryOutcome(FALSE, Null)}

\* a URL, a response without an image (no part with inlineData: null; a chat
\* completion whose content is empty or blank: ""), an exception
ImageOutcomes ==
  {StoryOutcome(TRUE, Str("img1")), StoryOutcome(TRUE, Null), StoryOutcome(TRUE, Str("")),
   StoryOutcome(FALSE, Null)}

\* what the shared tier answers for a key of the game: a failure, a miss, or
\* an entry (for a story, a scene with an image)
GameAnswers(kind) ==
  {Answer("reject", Null), Answer("notOk", Null),
   Answer("ok", IF kind = "story" THEN Story("n2", <<>>, "p1", TRUE, <<<<1>>>>)
                ELSE ImageBody(Str("img1")))}

(***************************************************************************)
(* App (src/App.tsx): startGame, handleChoice and onNarrativeComplete,     *)
(* with the Typewriter that shows the narrative.                           *)
(***************************************************************************)
\* the retry button's choice
RetryChoice == "retry"

\* startGame, lines 60-69, up to `await startNewGame()`: the start button, or
\* the retry button of an error before the first scene
StartGame ==
  /\ IF gameState.gameStarted
     THEN gameState.error /\ gameState.history = <<>>
     ELSE TRUE
  /\ Len(calls) < MaxAppCalls
  /\ gameState' = [gameState EXCEPT !.gameStarted = TRUE, !.loadingText = TRUE,
                                    !.error = FALSE, !.history = <<>>, !.inventory = <<>>]
  /\ typewriter' = "none"
  /\ typed' = 0
  /\ calls' = Append(calls, continueStory(calls, "start", <<>>, "START_GAME", <<>>, FALSE))
  /\ ops' = Pad(ops, Len(calls'))
  /\ UNCHANGED <<currentResponse, pendingRequests, pendingImages, localStorage,
                 isEnabled, cachePosts, idleVars>>

\* a prefetch for this choice from the present game state has resolved
Prefetched(choice) ==
  \E p \in 1..Len(calls) :
    /\ calls[p].kind = "story" /\ calls[p].origin = "prefetch" /\ calls[p].pc = "resolved"
    /\ calls[p].history = gameState.history
    /\ calls[p].inventory = gameState.inventory
    /\ calls[p].choice = choice

\* handleChoice, lines 81-89, up to `await continueStory(...)`: a choice
\* button, or the retry button of an error after the first scene
HandleChoice(choice) ==
  /\ gameState.gameStarted
  /\ IF gameState.error
     THEN Len(gameState.history) > 0 /\ choice = RetryChoice
     ELSE /\ ~gameState.loadingText /\ ~gameState.isGameOver
          /\ currentResponse # Null
          /\ choice \in Range(currentResponse.choices)
  /\ Len(calls) < MaxAppCalls
  /\ gameState' = [gameState EXCEPT !.loadingText = TRUE, !.error = FALSE]
  /\ typewriter' = "none"
  /\ typed' = 0
  /\ calls' = Append(calls,
       continueStory(calls, "choice",
                     Append(gameState.history, [role |-> "user", text |-> choice]),
                     choice, gameState.inventory, Prefetched(choice)))
  /\ ops' = Pad(ops, Len(calls'))
  /\ UNCHANGED <<currentResponse, pendingRequests, pendingImages, localStorage,
                 isEnabled, cachePosts, idleVars>>

\* text.length of a narrative: the narratives of the model have two characters
TextLength(text) == IF text = "" THEN 0 ELSE 1 + 1

\* Typewriter's typeChar, lines 19-29, while indexRef.current < text.length:
\* one more character is displayed
TypeChar ==
  /\ typewriter = "typing"
  /\ typed < TextLength(currentResponse.narrative)
  /\ typed' = typed + 1
  /\ UNCHANGED <<gameState, currentResponse, typewriter, calls, ops, pendingRequests,
                 pendingImages, localStorage, isEnabled, cachePosts, idleVars>>

\* variant: onComplete is called by the first run of typeChar
OnNarrativeCompleteAtOnce ==
  /\ typewriter = "typing"
  /\ typewriter' = "done"
  /\ IF currentResponse # Null /\ ~gameState.isGameOver
     THEN /\ Len(calls) + Len(currentResponse.choices) <= MaxAppCalls
          /\ calls' = preloadChoices(calls, gameState.history, currentResponse.choices,
                                     gameState.inventory)
     ELSE UNCHANGED calls
  /\ ops' = Pad(ops, Len(calls'))
  /\ UNCHANGED <<gameState, currentResponse, typed, pendingRequests, pendingImages,
                 localStorage, isEnabled, cachePosts, idleVars>>

\* Typewriter's typeChar reaches the end of the text and calls onComplete:
\* onNarrativeComplete, lines 156-161
OnNarrativeComplete ==
  /\ typewriter = "typing"
  /\ typed = TextLength(currentResponse.narrative)
  /\ typewriter' = "done"
  /\ IF currentResponse # Null /\ ~gameState.isGameOver
     THEN /\ Len(calls) + Len(currentResponse.choices) <= MaxAppCalls
          /\ calls' = preloadChoices(calls, gameState.history, currentResponse.choices,
                                     gameState.inventory)
     ELSE UNCHANGED calls
  /\ ops' = Pad(ops, Len(calls'))
  /\ UNCHANGED <<gameState, currentResponse, typed, pendingRequests, pendingImages,
                 localStorage, isEnabled, cachePosts, idleVars>>

(***************************************************************************)
(* GameService called by any client: concurrent continueStory calls,       *)
(* preloadChoices and generateImage with inputs of the client's choosing.  *)
(***************************************************************************)
ApiHistory == <<[role |-> "model", text |-> "n1"]>>

ApiChoices == {"look"}

ApiInventories == {<<<<1>>, <<2>>>>, <<<<2>>, <<1>>>>}

ApiContinueStory ==
  /\ Len(calls) < MaxCalls
  /\ \E choice \in ApiChoices, inventory \in ApiInventories :
       calls' = Append(calls, continueStory(calls, "api", ApiHistory, choice, inventory, FALSE))
  /\ ops' = Pad(ops, Len(calls'))
  /\ UNCHANGED <<pendingRequests, pendingImages, appVars, localStorage, isEnabled,
                 cachePosts, idleVars>>

ApiPreloadChoices ==
  /\ Len(calls) + 2 <= MaxCalls
  /\ calls' = preloadChoices(calls, ApiHistory, <<"burn", "leave">>, <<<<1>>, <<2>>>>)
  /\ ops' = Pad(ops, Len(calls'))
  /\ UNCHANGED <<pendingRequests, pendingImages, appVars, localStorage, isEnabled,
                 cachePosts, idleVars>>

ApiGenerateImage ==
  /\ Len(calls) < MaxCalls
  /\ calls' = Append(calls, generateImage(calls, "api", "p1"))
  /\ ops' = Pad(ops, Len(calls'))
  /\ UNCHANGED <<pendingRequests, pendingImages, appVars, localStorage, isEnabled,
                 cachePosts, idleVars>>

(***************************************************************************)
(* The steps of the service, and the two specifications of the game.       *)
(***************************************************************************)
\* localStorage.setItem returns, or throws for lack of room
Writes == BOOLEAN

\* the storage of the clients other than the App has room (a full storage is
\* explored with the cache on its own and under the App)
RoomyWrites == {TRUE}

StoryKeyDerived == \E c \in 1..Len(calls) : ContinueStoryResume(c, MaxCalls)

AppStoryKeyDerived == \E c \in 1..Len(calls) : ContinueStoryResume(c, MaxAppCalls)

ImageKeyDerived == \E c \in 1..Len(calls) : GenerateImageResume(c)

StoryCacheAnswers ==
  \E o \in 1..Len(ops), writeOk \in RoomyWrites :
    \E answer \in GameAnswers("story") : FetchOperationCached(o, answer, writeOk, MaxCalls)

AppStoryCacheAnswers ==
  \E o \in 1..Len(ops), writeOk \in Writes :
    \E answer \in GameAnswers("story") : FetchOperationCached(o, answer, writeOk, MaxAppCalls)

StoryGenerationSettles ==
  \E o \in 1..Len(ops), writeOk \in RoomyWrites :
    \E outcome \in ApiStoryOutcomes : FetchOperationGenerated(o, outcome, writeOk, MaxCalls)

AppStoryGenerationSettles ==
  \E o \in 1..Len(ops), writeOk \in Writes :
    \E outcome \in StoryOutcomes : FetchOperationGenerated(o, outcome, writeOk, MaxAppCalls)

ImageCacheAnswers ==
  \E o \in 1..Len(ops), writeOk \in RoomyWrites :
    \E answer \in GameAnswers("image") : FetchOpCached(o, answer, writeOk)

AppImageCacheAnswers ==
  \E o \in 1..Len(ops), writeOk \in Writes :
    \E answer \in GameAnswers("image") : FetchOpCached(o, answer, writeOk)

ImageGenerationSettles ==
  \E o \in 1..Len(ops), writeOk \in RoomyWrites :
    \E outcome \in ImageOutcomes : FetchOpGenerated(o, outcome, writeOk)

AppImageGenerationSettles ==
  \E o \in 1..Len(ops), writeOk \in Writes :
    \E outcome \in ImageOutcomes : FetchOpGenerated(o, outcome, writeOk)

ChoiceMade ==
  \E choice \in {"burn", "leave", RetryChoice} : HandleChoice(choice)

\* new GameService(settings) and the App's first render
GameInit ==
  /\ calls = <<>>
  /\ ops = <<>>
  /\ pendingRequests = EmptyMap
  /\ pendingImages = EmptyMap
  /\ gameState = InitialGameState
  /\ currentResponse = Null
  /\ typewriter = "none"
  /\ typed = 0

GameIdle == GameInit

\* the cache of a new GameService: useSharedCache as the settings have it
GameCacheInit ==
  /\ localStorage = [sk \in StoreKeys |-> NoItem]
  /\ isEnabled \in BOOLEAN
  /\ cacheGets = {}
  /\ cachePosts = {}
  /\ cacheCalls = 0
  /\ cacheKind = "story"
  /\ l1Born = [sk \in StoreKeys |-> [k \in {} |-> 0]]
  /\ l1Clock = 0
  /\ lastSave = NoSave
  /\ lastSet = NoSet
  /\ lastGet = NoGet
  /\ lastPost = NoPost

Next ==
  \/ ApiContinueStory
  \/ ApiPreloadChoices
  \/ ApiGenerateImage
  \/ StoryKeyDerived
  \/ StoryCacheAnswers
  \/ StoryGenerationSettles
  \/ ImageKeyDerived
  \/ ImageCacheAnswers
  \/ ImageGenerationSettles

AppNext ==
  \/ StartGame
  \/ ChoiceMade
  \/ TypeChar
  \/ OnNarrativeComplete
  \/ AppStoryKeyDerived
  \/ AppStoryCacheAnswers
  \/ AppStoryGenerationSettles
  \/ ImageKeyDerived
  \/ AppImageCacheAnswers
  \/ AppImageGenerationSettles


(***************************************************************************)
(* The remote store (src/unnamed/part_003): an HTTP server holding a Map.  *)
(*                                                                         *)
(* A Map keeps its entries in insertion order.  It is written here as a    *)
(* sequence of segments in that order.  A segment with lo = 0 is one       *)
(* entry, key k and value v.  A segment with lo > 0 stands for the         *)
(* hi - lo + 1 consecutive entries numbered lo..hi that other clients      *)
(* stored, each under a key of its own that no request of the run names;   *)
(* keeping them as a range lets the store hold as many entries as the      *)
(* byte budget of the source needs before it evicts.                       *)
(*                                                                         *)
(* A request is handled in one step: the GET branch is synchronous, and    *)
(* the POST branch runs in the 'end' callback of the request, once its     *)
(* body is complete.                                                       *)
(***************************************************************************)
MAX_CACHE_SIZE_BYTES == 1024 * 1024 * 1024

avgEntrySize == 50 * 1024

Entry(k, v) == [k |-> k, v |-> v, lo |-> 0, hi |-> 0]

OtherEntries(lo, hi) == [k |-> "", v |-> Null, lo |-> lo, hi |-> hi]

SegSize(seg) == IF seg.lo = 0 THEN 1 ELSE seg.hi - seg.lo + 1

\* cache.size
RECURSIVE cacheSize(_)
cacheSize(store) ==
  IF store = <<>> THEN 0 ELSE SegSize(Head(store)) + cacheSize(Tail(store))

\* cache.has(key); the key of a GET without a key parameter is null
cacheHas(store, key) ==
  /\ key.type = "string"
  /\ \E n \in 1..Len(store) : store[n].lo = 0 /\ store[n].k = key.s

\* cache.get(key)
cacheGet(store, key) ==
  IF cacheHas(store, key)
  THEN store[CHOOSE n \in 1..Len(store) : store[n].lo = 0 /\ store[n].k = key.s].v
  ELSE Undefined

\* cache.delete(key)
cacheDelete(store, key) ==
  SelectSeq(store, LAMBDA seg : ~(seg.lo = 0 /\ seg.k = key.s))

\* cache.set(key, data): a present key keeps its position, a new one goes last
cacheSet(store, key, data) ==
  IF cacheHas(store, key)
  THEN [n \in 1..Len(store) |->
          IF store[n].lo = 0 /\ store[n].k = key.s
          THEN [store[n] EXCEPT !.v = data] ELSE store[n]]
  ELSE Append(store, Entry(key.s, data))

\* for (const k of Array.from(cache.keys()).slice(0, n)) cache.delete(k)
RECURSIVE DeleteFirst(_, _)
DeleteFirst(store, n) ==
  IF n <= 0 \/ store = <<>> THEN store
  ELSE LET seg == Head(store) IN
       IF SegSize(seg) <= n THEN DeleteFirst(Tail(store), n - SegSize(seg))
       ELSE <<[seg EXCEPT !.lo = seg.lo + n]>> \o Tail(store)

\* Math.ceil(size * 0.1).  The product is rounded to the nearest double
\* before the ceiling is taken; for every size the budget lets the store
\* reach (below 60000) that equals the ceiling of the exact tenth.
CeilTenth(size) == (size + 9) \div 10

\* variant: the pass removes the tenth rounded down
checkSizeLimitFloor(store) ==
  LET estimatedSize == cacheSize(store) * avgEntrySize IN
  IF estimatedSize > MAX_CACHE_SIZE_BYTES
  THEN DeleteFirst(store, cacheSize(store) \div 10)
  ELSE store

checkSizeLimit(store) ==
  LET estimatedSize == cacheSize(store) * avgEntrySize IN
  IF estimatedSize > MAX_CACHE_SIZE_BYTES
  THEN DeleteFirst(store, CeilTenth(cacheSize(store)))
  ELSE store

\* JSON.stringify of a response object: a property whose value is undefined
\* is left out (data is the one property whose value is not a literal)
Response(status, fields) ==
  [status |-> status,
   body |-> [f \in {g \in DOMAIN fields : g # "data" \/ fields[g] # Undefined} |->
               fields[f]]]

\* variant: answers with cache.get(key) without asking cache.has(key)
getHandlerNoHas(store, key) ==
  Response(200, [type |-> "object", success |-> TRUE, data |-> cacheGet(store, key)])

\* GET /api/cache?key=...
getHandler(store, key) ==
  IF cacheHas(store, key)
  THEN Response(200, [type |-> "object", success |-> TRUE, data |-> cacheGet(store, key)])
  ELSE Response(404, [type |-> "object", success |-> FALSE, error |-> "Not found"])

BadRequest(message, store) ==
  [response |-> Response(400, [type |-> "object", success |-> FALSE, error |-> message]),
   inserted |-> store,
   cache |-> store]

\* variant: the entry is written before the payload is validated
postHandlerWritesFirst(store, body) ==
  IF ~body.parses THEN BadRequest("Unexpected token", store)
  ELSE IF body.value.type \in {"null", "undefined"}
  THEN BadRequest("Cannot destructure", store)
  ELSE LET key == Prop(body.value, "key")
           data == Prop(body.value, "data")
           inserted == IF key.type = "string"
                       THEN cacheSet(cacheDelete(store, key), key, data)
                       ELSE store
       IN  IF Truthy(key) /\ Truthy(data)
           THEN [response |-> Response(200, [type |-> "object", success |-> TRUE]),
                 inserted |-> inserted,
                 cache |-> checkSizeLimit(inserted)]
           ELSE [BadRequest("Invalid payload", store) EXCEPT !.cache = inserted]

\* variant: success is answered without the entry being written
postHandlerAnswersOnly(store, body) ==
  IF ~body.parses THEN BadRequest("Unexpected token", store)
  ELSE IF body.value.type \in {"null", "undefined"}
  THEN BadRequest("Cannot destructure", store)
  ELSE LET key == Prop(body.value, "key")
           data == Prop(body.value, "data")
       IN  IF Truthy(key) /\ Truthy(data)
           THEN [response |-> Response(200, [type |-> "object", success |-> TRUE]),
                 inserted |-> store,
                 cache |-> store]
           ELSE BadRequest("Invalid payload", store)

\* variant: cache.set without the cache.delete before it
postHandlerNoDelete(store, body) ==
  IF ~body.parses THEN BadRequest("Unexpected token", store)
  ELSE IF body.value.type \in {"null", "undefined"}
  THEN BadRequest("Cannot destructure", store)
  ELSE LET key == Prop(body.value, "key")
           data == Prop(body.value, "data")
           inserted == cacheSet(store, key, data)
       IN  IF Truthy(key) /\ Truthy(data)
           THEN [response |-> Response(200, [type |-> "object", success |-> TRUE]),
                 inserted |-> inserted,
                 cache |-> checkSizeLimit(inserted)]
           ELSE BadRequest("Invalid payload", store)

\* POST /api/cache, the 'end' callback
postHandler(store, body) ==
  IF ~body.parses THEN BadRequest("Unexpected token", store)
  ELSE IF body.value.type \in {"null", "undefined"}
  THEN BadRequest("Cannot destructure", store)
  ELSE LET key == Prop(body.value, "key")
           data == Prop(body.value, "data")
           inserted == cacheSet(cacheDelete(store, key), key, data)
       IN  IF Truthy(key) /\ Truthy(data)
           THEN [response |-> Response(200, [type |-> "object", success |-> TRUE]),
                 inserted |-> inserted,
                 cache |-> checkSizeLimit(inserted)]
           ELSE BadRequest("Invalid payload", store)

\* ---- the requests of a run ----
MaxRequests == 4

\* the number of entries at which the estimate first exceeds the budget, and
\* the number the pass then removes
EvictAt == MAX_CACHE_SIZE_BYTES \div avgEntrySize + 1

EvictBatch == CeilTenth(EvictAt)

EntryA == [type |-> "object", a |-> Num(1)]

EntryB == [type |-> "object", a |-> Num(2)]

EmptyObject == [type |-> "object"]

TruthyData == {EntryA, EmptyObject}

FalsyData == {Bool(FALSE), Num(0), Str(""), Null}

PostKeys == {"old1", "edgeOut", "new1"}

GetKeys == {Str(k) : k \in PostKeys \cup {"edgeIn"}} \cup {Null}

Payload(k, d) == [type |-> "object", key |-> Str(k), data |-> d]

WellFormedBodies ==
  {JsonText(Payload(k, d)) : k \in PostKeys, d \in TruthyData}
    \cup {JsonText(Payload("new1", d)) : d \in FalsyData}

MalformedBodies ==
  {Garbage, JsonText(Null), JsonText(EmptyObject),
   JsonText([type |-> "object", key |-> Str("new1")]),
   JsonText([type |-> "object", data |-> EntryA])}

PostBodies == WellFormedBodies \cup MalformedBodies

\* what loadCache found at startup: nothing, or a snapshot one entry short
\* of the size at which the pass runs, whose entries at the positions
\* EvictBatch and EvictBatch + 1 are "edgeIn" and "edgeOut"
Snapshots ==
  {<<>>,
   <<Entry("old1", EntryB), OtherEntries(1, EvictBatch - 2),
     Entry("edgeIn", EntryB), Entry("edgeOut", EntryB),
     OtherEntries(EvictBatch - 1, EvictAt - 4)>>}

NoRequest ==
  [method |-> "none", key |-> Null, body |-> Garbage,
   response |-> Response(0, [type |-> "object"]),
   before |-> <<>>, inserted |-> <<>>]

NoneAcked == [k \in {} |-> Null]

\* CACHE_FILE: absent, or a text
NoFile == [exists |-> FALSE, text |-> Garbage]

File(text) == [exists |-> TRUE, text |-> text]

NotSaved == [done |-> FALSE, store |-> <<>>]

DiskIdle ==
  /\ disk = NoFile
  /\ srvUp = TRUE
  /\ srvSaved = NotSaved

ServerIdle ==
  /\ cache = <<>>
  /\ srvRequests = 0
  /\ srvLast = NoRequest
  /\ srvAcked = NoneAcked
  /\ DiskIdle

ServerInit ==
  /\ cache \in Snapshots
  /\ srvRequests = 0
  /\ srvLast = NoRequest
  /\ srvAcked = NoneAcked
  /\ DiskIdle

\* the position of an entry in insertion order, 1 being the oldest
RECURSIVE PositionOf(_, _)
PositionOf(store, k) ==
  IF Head(store).lo = 0 /\ Head(store).k = k THEN 1
  ELSE SegSize(Head(store)) + PositionOf(Tail(store), k)

NamedKeys(store) == {store[n].k : n \in {m \in 1..Len(store) : store[m].lo = 0}}

\* the number of entries the claimed pass removes from a store of this size
Due(store) ==
  IF cacheSize(store) * avgEntrySize > MAX_CACHE_SIZE_BYTES
  THEN CeilTenth(cacheSize(store)) ELSE 0

\* the named keys among the oldest Due(store) entries
Victims(store) == {k \in NamedKeys(store) : PositionOf(store, k) <= Due(store)}

\* variant: a hit moves the entry to the end, as a store that tracks recency
\* would
cacheReadRefreshes(store, key) ==
  IF cacheHas(store, key)
  THEN cacheSet(cacheDelete(store, key), key, cacheGet(store, key))
  ELSE store

\* the Map after cache.has(key) and cache.get(key), lines 93-95: neither
\* method changes the Map
cacheRead(store, key) == store

ServerGet(key) ==
  /\ srvUp
  /\ srvRequests < MaxRequests
  /\ srvRequests' = srvRequests + 1
  /\ srvLast' = [method |-> "GET", key |-> key, body |-> Garbage,
                 response |-> getHandler(cache, key),
                 before |-> cache, inserted |-> cache]
  /\ cache' = cacheRead(cache, key)
  /\ UNCHANGED srvAcked
  /\ UNCHANGED <<keyVars, cacheVars, gameVars, diskVars, serviceVars>>

ServerPost(body) ==
  LET handled == postHandler(cache, body)
      key == Prop(body.value, "key")
      stored == handled.response.status = 200
  IN  /\ srvUp
      /\ srvRequests < MaxRequests
      /\ srvRequests' = srvRequests + 1
      /\ cache' = handled.cache
      /\ srvLast' = [method |-> "POST", key |-> key, body |-> body,
                     response |-> handled.response,
                     before |-> cache, inserted |-> handled.inserted]
      /\ srvAcked' =
           IF stored
           THEN LET kept == (DOMAIN srvAcked \cup {key.s}) \ Victims(handled.inserted)
                IN  [k \in kept |-> IF k = key.s THEN Prop(body.value, "data")
                                    ELSE srvAcked[k]]
           ELSE srvAcked
      /\ UNCHANGED <<keyVars, cacheVars, gameVars, diskVars, serviceVars>>

HandleGet == \E key \in GetKeys : ServerGet(key)

HandlePost == \E body \in PostBodies : ServerPost(body)

\* the request is left without a response: nothing is written to res
Unanswered == Response(0, [type |-> "object"])

\* the methods a client may send besides GET and POST
OtherMethods == {"OPTIONS", "PUT", "DELETE", "HEAD"}

\* variant: a method that is neither GET nor POST is refused with 405
otherHandlerRefuses(method) ==
  IF method = "OPTIONS" THEN Response(204, [type |-> "object"])
  ELSE Response(405, [type |-> "object", success |-> FALSE])

\* the request handler for /api/cache and a method other than GET and POST,
\* lines 79-83 and 89-123: OPTIONS is answered 204 with an empty body; for
\* any other method neither branch is taken and the handler returns
otherHandler(method) ==
  IF method = "OPTIONS" THEN Response(204, [type |-> "object"])
  ELSE Unanswered

ServerOther(method) ==
  /\ srvUp
  /\ srvRequests < MaxRequests
  /\ srvRequests' = srvRequests + 1
  /\ srvLast' = [method |-> method, key |-> Null, body |-> Garbage,
                 response |-> otherHandler(method),
                 before |-> cache, inserted |-> cache]
  /\ UNCHANGED <<cache, srvAcked>>
  /\ UNCHANGED <<keyVars, cacheVars, gameVars, diskVars, serviceVars>>

HandleOther == \E method \in OtherMethods : ServerOther(method)

ServerNext ==
  \/ HandleGet
  \/ HandlePost
  \/ HandleOther

\* ---- the snapshot file ----
\* an object used as a dictionary, its properties in creation order; the keys
\* of the store are never array indices, so that is the order of the entries
Dictionary(entries) == [type |-> "dictionary", entries |-> entries]

\* Object.fromEntries(cache)
ObjectFromEntries(store) == Dictionary(store)

\* JSON.stringify(obj): a property whose value is undefined is left out
Stringify(obj) ==
  JsonText(Dictionary(SelectSeq(obj.entries, LAMBDA seg : seg.v # Undefined)))

\* Object.entries(data): throws for null, is empty for a number or a boolean
ObjectEntries(data) == IF data.type = "dictionary" THEN data.entries ELSE <<>>

\* variant: loadCache without its try/catch
loadCacheNoCatch(file) ==
  IF ~file.exists THEN [cache |-> <<>>, threw |-> FALSE]
  ELSE IF ~file.text.parses \/ file.text.value.type \in {"null", "undefined"}
  THEN [cache |-> <<>>, threw |-> TRUE]
  ELSE [cache |-> ObjectEntries(file.text.value), threw |-> FALSE]

\* loadCache(), run once at startup on the empty Map
loadCache(file) ==
  IF ~file.exists THEN [cache |-> <<>>, threw |-> FALSE]
  ELSE IF ~file.text.parses \/ file.text.value.type \in {"null", "undefined"}
  THEN [cache |-> <<>>, threw |-> FALSE]
  ELSE [cache |-> ObjectEntries(file.text.value), threw |-> FALSE]

\* what becomes of fs.writeFileSync: the file is written, the call throws
\* with the file as it was, or it throws with the file cut short
WriteOutcomes == {"written", "failed", "truncated"}

\* variant: the snapshot leaves out the oldest entry
saveCacheSkipsOldest(store, file, outcome) ==
  CASE outcome = "written" -> File(Stringify(ObjectFromEntries(DeleteFirst(store, 1))))
    [] outcome = "failed" -> file
    [] outcome = "truncated" -> File(Garbage)

\* saveCache(): the file afterwards
saveCache(store, file, outcome) ==
  CASE outcome = "written" -> File(Stringify(ObjectFromEntries(store)))
    [] outcome = "failed" -> file
    [] outcome = "truncated" -> File(Garbage)

\* the files a startup may find
\* a snapshot file with more entries than the budget allows (written under
\* another budget, or put there by hand): loadCache takes what it finds
OversizedSnapshot ==
  <<Entry("old1", EntryB), OtherEntries(1, EvictAt + 2 * EvictBatch)>>

StartFiles ==
  {NoFile, File(Garbage), File(JsonText(Null)), File(JsonText(Num(5)))}
    \cup {File(JsonText(Dictionary(store))) : store \in Snapshots \cup {OversizedSnapshot}}

Boot == [NoRequest EXCEPT !.method = "BOOT"]

\* loadCache(); setInterval(saveCache, SAVE_INTERVAL_MS); server.listen(PORT)
SnapshotInit ==
  /\ disk \in StartFiles
  /\ cache = loadCache(disk).cache
  /\ srvUp = ~loadCache(disk).threw
  /\ srvSaved = NotSaved
  /\ srvRequests = 0
  /\ srvLast = Boot
  /\ srvAcked = NoneAcked

\* the timer fires: saveCache()
SaveCache(outcome) ==
  /\ srvUp
  /\ disk' = saveCache(cache, disk, outcome)
  /\ srvSaved' = CASE outcome = "written" -> [done |-> TRUE, store |-> cache]
                   [] outcome = "failed" -> srvSaved
                   [] outcome = "truncated" -> NotSaved
  /\ srvLast' = [NoRequest EXCEPT !.method = "SAVE", !.before = cache, !.inserted = cache]
  /\ UNCHANGED <<cache, srvUp, srvRequests, srvAcked>>
  /\ UNCHANGED <<keyVars, cacheVars, gameVars, serviceVars>>

\* the process ends and is started again: the Map of the new process is
\* what loadCache makes of the file
Restart ==
  /\ cache' = loadCache(disk).cache
  /\ srvUp' = ~loadCache(disk).threw
  /\ srvLast' = Boot
  /\ srvAcked' = NoneAcked
  /\ UNCHANGED <<disk, srvSaved, srvRequests>>
  /\ UNCHANGED <<keyVars, cacheVars, gameVars, serviceVars>>

SaveTick == \E outcome \in WriteOutcomes : SaveCache(outcome)

SnapshotNext ==
  \/ HandleGet
  \/ HandlePost
  \/ SaveTick
  \/ Restart


(***************************************************************************)
(* GameService (src/unnamed/part_001): its settings and its calls to the   *)
(* collaborator.                                                           *)
(***************************************************************************)
Providers == {"gemini", "openai"}

ApiKeys == {"", "key"}

\* a GameSettings value (src/types.ts); model, imageModel and baseUrl only
\* parameterise the requests and are left out.  A value stored by an earlier
\* version has no useSharedCache.
LegacySettings(provider, apiKey) ==
  [type |-> "object", provider |-> provider, apiKey |-> apiKey]

Settings(provider, apiKey, useSharedCache) ==
  [type |-> "object", provider |-> provider, apiKey |-> apiKey,
   useSharedCache |-> useSharedCache]

SettingsValues ==
  {LegacySettings(p, k) : p \in Providers, k \in ApiKeys}
    \cup {Settings(p, k, u) : p \in Providers, k \in ApiKeys, u \in {Bool(TRUE), Bool(FALSE)}}

\* the App's initial settings state, App.tsx lines 31-38
DefaultSettings == Settings("gemini", "", Bool(TRUE))

\* initClient(): the client afterwards (TRUE: a GoogleGenAI instance)
initClient(client, s, env) ==
  IF s.provider = "gemini"
  THEN IF s.apiKey # "" \/ env # "" THEN TRUE ELSE client
  ELSE FALSE

\* constructor, line 80: settings.useSharedCache !== false
constructorEnabled(s) == Prop(s, "useSharedCache") # Bool(FALSE)

\* variant: updateSettings with the test of the constructor
updateSettingsEnabledAsConstructor(s) == Prop(s, "useSharedCache") # Bool(FALSE)

\* updateSettings, line 107: setEnabled(newSettings.useSharedCache); every
\* read of isEnabled is `if (this.isEnabled)`, so the variable isEnabled holds
\* the truth value of the field
updateSettingsEnabled(s) == Truthy(Prop(s, "useSharedCache"))

\* the item STORAGE_KEY_SETTINGS of localStorage: absent, or a text
NoSettingsItem == [present |-> FALSE, text |-> Garbage]

SettingsItem(text) == [present |-> TRUE, text |-> text]

\* JSON.stringify(this.settings): a property whose value is undefined is left out
StringifySettings(s) ==
  JsonText([f \in {g \in DOMAIN s : g # "useSharedCache" \/ s[g] # Undefined} |-> s[f]])

\* loadSettingsFromStorage()
loadSettingsFromStorage(item) ==
  IF item.present /\ item.text.parses THEN item.text.value ELSE Null

StoredItems ==
  {NoSettingsItem, SettingsItem(Garbage)}
    \cup {SettingsItem(StringifySettings(s)) : s \in SettingsValues}

\* callGemini, lines 225-268: response.text || "{}"
callGemini(client, reply) ==
  IF ~client THEN StoryOutcome(FALSE, Failure)
  ELSE IF reply.kind # "content" THEN StoryOutcome(FALSE, Failure)
  ELSE IF reply.text.type = "string" /\ ~reply.text.empty
  THEN safeParse(reply.text)
  ELSE safeParse(StringText(TRUE, JsonText([type |-> "object"])))

\* callOpenAI, lines 270-306
callOpenAI(s, reply) ==
  IF s.apiKey = "" THEN StoryOutcome(FALSE, Failure)
  ELSE IF reply.kind # "content" THEN StoryOutcome(FALSE, Failure)
  ELSE safeParse(reply.text)

\* fetchStory, lines 192-214
fetchStory(s, client, reply) ==
  IF s.provider = "openai" THEN callOpenAI(s, reply) ELSE callGemini(client, reply)

NoServiceCall ==
  [op |-> "none", arg |-> Null, reply |-> Reply("reject", Null),
   outcome |-> StoryOutcome(FALSE, Null)]

ServiceIdle ==
  /\ settings = DefaultSettings
  /\ geminiClient = FALSE
  /\ envApiKey = ""
  /\ storedSettings = NoSettingsItem
  /\ svcLast = NoServiceCall

cacheRest == <<localStorage, cacheGets, cachePosts, cacheCalls, cacheKind,
               l1Born, l1Clock, lastSave, lastSet, lastGet, lastPost>>

\* App.tsx line 49 on mount: new GameService(settings) with the App's initial
\* settings; what localStorage holds and process.env.API_KEY are the
\* environment's
ServiceInit ==
  /\ settings = DefaultSettings
  /\ envApiKey \in ApiKeys
  /\ geminiClient = initClient(FALSE, DefaultSettings, envApiKey)
  /\ storedSettings \in StoredItems
  /\ svcLast = [NoServiceCall EXCEPT !.op = "constructor", !.arg = DefaultSettings]

\* new GameService(s)
Construct(s) ==
  /\ settings' = s
  /\ isEnabled' = constructorEnabled(s)
  /\ geminiClient' = initClient(FALSE, s, envApiKey)
  /\ svcLast' = [NoServiceCall EXCEPT !.op = "constructor", !.arg = s]
  /\ UNCHANGED <<envApiKey, storedSettings>>
  /\ UNCHANGED <<keyVars, cacheRest, gameVars, serverVars>>

\* updateSettings(s); setItem may throw, which saveSettingsToStorage catches
UpdateSettings(s, writeOk) ==
  /\ settings' = s
  /\ isEnabled' = updateSettingsEnabled(s)
  /\ geminiClient' = initClient(geminiClient, s, envApiKey)
  /\ storedSettings' = IF writeOk THEN SettingsItem(StringifySettings(s))
                       ELSE storedSettings
  /\ svcLast' = [NoServiceCall EXCEPT !.op = "updateSettings", !.arg = s]
  /\ UNCHANGED envApiKey
  /\ UNCHANGED <<keyVars, cacheRest, gameVars, serverVars>>

\* fetchStory settles
FetchStory(reply) ==
  /\ svcLast' = [op |-> "fetchStory", arg |-> settings, reply |-> reply,
                 outcome |-> fetchStory(settings, geminiClient, reply)]
  /\ UNCHANGED <<settings, geminiClient, envApiKey, storedSettings>>
  /\ UNCHANGED <<keyVars, cacheVars, gameVars, serverVars>>

NewService == \E s \in SettingsValues : Construct(s)

\* the settings effect, App.tsx lines 52-54, with the settings state: the
\* value the modal saved
SettingsChanged == \E s \in SettingsValues, writeOk \in BOOLEAN : UpdateSettings(s, writeOk)

\* the mount effect, App.tsx lines 41-46: the stored settings become the
\* settings state, and the settings effect passes them to updateSettings
StoredSettingsLoaded ==
  /\ Truthy(loadSettingsFromStorage(storedSettings))
  /\ \E writeOk \in BOOLEAN :
       UpdateSettings(loadSettingsFromStorage(storedSettings), writeOk)

StorySettles == \E reply \in Replies : FetchStory(reply)

ServiceNext ==
  \/ NewService
  \/ SettingsChanged
  \/ StoredSettingsLoaded
  \/ StorySettles


(***************************************************************************)
(* Key derivation on its own: inputs drawn in KeyInit.                     *)
(***************************************************************************)
Roles == {"user", "model"}
Texts == {"t1", "t2"}
Choices == {"START_GAME", "burn", "leave"}

Turns == [role : Roles, text : Texts]

SeqsUpTo(S, n) == UNION {[1..m -> S] : m \in 0..n}

IndexPermutations(n) == {p \in [1..n -> 1..n] : \A a, b \in 1..n : p[a] = p[b] => a = b}

NoKeys == [w \in {} |-> 0]

KeyInit ==
  /\ kdHistory \in SeqsUpTo(Turns, MaxKdHistory)
  /\ kdChoice \in Choices
  /\ kdInventory \in SeqsUpTo(ItemNames, MaxInventory)
  /\ \E p \in IndexPermutations(Len(kdInventory)) :
       kdShuffled = [n \in 1..Len(kdInventory) |-> kdInventory[p[n]]]
  /\ kdKeys = NoKeys
  /\ CacheIdle
  /\ GameIdle
  /\ ServerIdle
  /\ ServiceIdle

KeyIdle ==
  /\ kdHistory = <<>>
  /\ kdChoice = "START_GAME"
  /\ kdInventory = <<>>
  /\ kdShuffled = <<>>
  /\ kdKeys = NoKeys

\* await cacheService.generateKey(history, choice, inventory)
DeriveKey ==
  /\ "orig" \notin DOMAIN kdKeys
  /\ kdKeys' = [w \in DOMAIN kdKeys \cup {"orig"} |->
                  IF w = "orig" THEN generateKey(kdHistory, kdChoice, kdInventory)
                  ELSE kdKeys[w]]
  /\ UNCHANGED <<kdHistory, kdChoice, kdInventory, kdShuffled, cacheVars, gameVars,
                 serverVars, serviceVars>>

\* the same call with the inventory in another order
DeriveKeyShuffled ==
  /\ "shuf" \notin DOMAIN kdKeys
  /\ kdKeys' = [w \in DOMAIN kdKeys \cup {"shuf"} |->
                  IF w = "shuf" THEN generateKey(kdHistory, kdChoice, kdShuffled)
                  ELSE kdKeys[w]]
  /\ UNCHANGED <<kdHistory, kdChoice, kdInventory, kdShuffled, cacheVars, gameVars,
                 serverVars, serviceVars>>

\* GameService.getCacheKey (src/services/gameService.ts, lines 162-167), the
\* key of the in-memory preloadCache: `${history.length}:${lastMsg}:${choice}:
\* ${invHash}`.  inventory.sort() sorts the caller's array in place and
\* returns it; slice(-20) keeps the texts of the model, which are shorter,
\* whole; the joined inventory is written as the sequence of its items.
getCacheKey(history, choice, inventory) ==
  [key |-> [n |-> Len(history),
            lastMsg |-> IF Len(history) > 0 THEN history[Len(history)].text ELSE "START",
            c |-> choice,
            invHash |-> SortStrings(inventory)],
   inventory |-> SortStrings(inventory)]

\* continueStory of src/services/gameService.ts, line 176:
\* const cacheKey = this.getCacheKey(history, choice, inventory)
GetCacheKey ==
  /\ "memo" \notin DOMAIN kdKeys
  /\ LET r == getCacheKey(kdHistory, kdChoice, kdInventory)
     IN /\ kdKeys' = [w \in DOMAIN kdKeys \cup {"memo"} |->
                        IF w = "memo" THEN r.key ELSE kdKeys[w]]
        /\ kdInventory' = r.inventory
  /\ UNCHANGED <<kdHistory, kdChoice, kdShuffled, cacheVars, gameVars,
                 serverVars, serviceVars>>

\* what a turn can carry besides role and text
Extras == {"img1", "img2"}

\* the history with one more field on every turn
Decorated(history, extra) ==
  [n \in 1..Len(history) |->
     [role |-> history[n].role, text |-> history[n].text, image |-> extra]]

\* the same call with turns that carry another field
DeriveKeyDecorated ==
  /\ "extra" \notin DOMAIN kdKeys
  /\ \E extra \in Extras :
       kdKeys' = [w \in DOMAIN kdKeys \cup {"extra"} |->
                    IF w = "extra"
                    THEN generateKey(Decorated(kdHistory, extra), kdChoice, kdInventory)
                    ELSE kdKeys[w]]
  /\ UNCHANGED <<kdHistory, kdChoice, kdInventory, kdShuffled, cacheVars, gameVars,
                 serverVars, serviceVars>>

\* the history with the role of its first turn exchanged
Recast(history) ==
  [history EXCEPT ![1].role = IF @ = "user" THEN "model" ELSE "user"]

\* continueStory of src/services/gameService.ts, lines 175-181, called for
\* the recast history after the call above has stored its promise under its
\* key: hit is preloadCache.has(cacheKey), on which the stored promise is
\* returned
GetCacheKeyRecast ==
  /\ "memo" \in DOMAIN kdKeys
  /\ "recast" \notin DOMAIN kdKeys
  /\ Len(kdHistory) > 0
  /\ LET r == getCacheKey(Recast(kdHistory), kdChoice, kdInventory)
     IN /\ kdKeys' = [w \in DOMAIN kdKeys \cup {"recast"} |->
                        IF w = "recast"
                        THEN [key |-> r.key, hit |-> r.key = kdKeys["memo"]]
                        ELSE kdKeys[w]]
        /\ kdInventory' = r.inventory
  /\ UNCHANGED <<kdHistory, kdChoice, kdShuffled, cacheVars, gameVars,
                 serverVars, serviceVars>>

KeyNext ==
  \/ DeriveKey
  \/ DeriveKeyShuffled
  \/ GetCacheKey
  \/ DeriveKeyDecorated
  \/ GetCacheKeyRecast

SpecKey == KeyInit /\ [][KeyNext]_vars

(***************************************************************************)
(* CacheService on its own.                                                *)
(***************************************************************************)
SetCall ==
  /\ \E n \in CacheKeyIds, writeOk \in BOOLEAN :
       \E data \in CachePayloads(cacheKind) :
         CacheSet(cacheKind, CacheKeyOf(cacheKind, n), data, writeOk)
  /\ UNCHANGED <<keyVars, gameVars, serverVars, serviceVars>>

GetCall ==
  /\ \E n \in CacheKeyIds : CacheGet(cacheKind, CacheKeyOf(cacheKind, n))
  /\ UNCHANGED <<keyVars, gameVars, serverVars, serviceVars>>

FetchSettles ==
  /\ \E g \in cacheGets, writeOk \in BOOLEAN :
       \E answer \in Answers(g.kind) : CacheFetchSettles(g, answer, writeOk)
  /\ UNCHANGED <<keyVars, gameVars, serverVars, serviceVars>>

PostSettles ==
  /\ \E p \in cachePosts, net \in PostAnswers : CachePostSettles(p, net)
  /\ UNCHANGED <<keyVars, gameVars, serverVars, serviceVars>>

SetEnabledCall ==
  /\ \E enabled \in BOOLEAN : CacheSetEnabled(enabled)
  /\ UNCHANGED <<keyVars, gameVars, serverVars, serviceVars>>

CacheNext == SetCall \/ GetCall \/ FetchSettles \/ PostSettles \/ SetEnabledCall

InitCache == KeyIdle /\ CacheInit /\ GameIdle /\ ServerIdle /\ ServiceIdle

SpecCache == InitCache /\ [][CacheNext]_vars

L1Size(storeKey) == Len(ParseStore(localStorage[storeKey]))

\* C7 (as claimed): setStory(k, v) immediately followed by getStory(k) returns v
\* (likewise setImage/getImage), whatever the L1 store held before.
C7_RoundTrip ==
  (lastGet.kind # "none" /\ lastGet.after.store # "none" /\ lastGet.after.key = lastGet.key)
    => (~lastGet.threw /\ lastGet.result = lastGet.after.data)

\* C8: each L1 store (text, image) holds at most MAX_LOCAL_ITEMS entries
\* after any sequence of sets and read-through populations.
C8_L1Bounded == \A sk \in StoreKeys : L1Size(sk) <= MAX_LOCAL_ITEMS

\* a new key has just been written into a store that was at capacity
C8_Witness ==
  /\ lastSave.store # "none" /\ lastSave.ok /\ lastSave.isNew
  /\ lastSave.sizeBefore = MAX_LOCAL_ITEMS
  /\ L1Size(lastSave.store) = MAX_LOCAL_ITEMS

\* C9: when the insert of a new key into a full L1 store evicts, the entry
\* removed is the one whose key was inserted earliest among the keys present
\* (and it is the only one removed).
C9_EvictsOldest ==
  (lastSave.store # "none" /\ lastSave.ok /\ lastSave.isNew
     /\ lastSave.sizeBefore >= MAX_LOCAL_ITEMS)
    => (lastSave.lost = lastSave.oldest /\ Cardinality(lastSave.lost) = 1)

\* an eviction whose victim was not the first key of the initial fill: the
\* first key had been rewritten (and so re-created) just before
C9_Witness ==
  /\ lastSave.store # "none" /\ lastSave.ok /\ lastSave.isNew
  /\ lastSave.sizeBefore >= MAX_LOCAL_ITEMS
  /\ lastSave.lost = {CacheKeyOf(cacheKind, 2)}

\* C10: when the L2 request fails (server unreachable, error status, broken
\* body), getStory and getImage return null, and a key that is in L1 is
\* answered from L1; no call throws.
C10_L2FailureIsMiss ==
  lastGet.kind # "none" =>
    /\ ~lastGet.threw
    /\ (Truthy(lastGet.l1) => (lastGet.result = lastGet.l1 /\ lastGet.net = "none"))
    /\ (lastGet.net \in {"reject", "notOk", "badJson"} => lastGet.result = Null)

\* a get whose fetch was rejected has returned
C10_Witness ==
  /\ lastGet.kind # "none" /\ lastGet.net \in {"reject", "badJson"}
  /\ lastGet.result = Null

\* C11 (as claimed): when the L2 write of a set fails (the request is
\* rejected or answered with an error status), the entry of that set is in L1
\* as the call wrote it, the failure was not surfaced to the caller, and the
\* request is not sent again.
C11_AsClaimed ==
  (/\ lastSet.store # "none"
   /\ lastPost.net \in {"reject", "notOk"}
   /\ lastPost.key = PostOf(lastSet).key /\ lastPost.data = PostOf(lastSet).data)
    => /\ GetProp(ParseStore(localStorage[lastSet.store]), lastSet.key) = lastSet.data
       /\ ~lastPost.surfaced
       /\ PostOf(lastSet) \notin cachePosts

\* what the L1 lookup of getStory/getImage finds for a key now
LocalNow(kind, key) ==
  IF kind = "story" THEN getStoryLocal(localStorage, key)
  ELSE getImageLocal(localStorage, key)

\* C12 (as claimed): when a get has missed L1 and hit L2, the entry it
\* returned is in L1 when it returns: the L1 lookup of the next get for that
\* key finds it.
C12_AsClaimed ==
  (lastGet.kind # "none" /\ lastGet.net = "ok" /\ Truthy(lastGet.result))
    => LocalNow(lastGet.kind, lastGet.key) = lastGet.result

\* C13: while the shared tier is disabled, a get or a set sends no request to
\* the remote store: the get returns at once what L1 holds (null on a miss),
\* and the set changes nothing but L1.
C13_DisabledSkipsL2 ==
  [][(~isEnabled /\ cacheCalls' # cacheCalls)
       => /\ cacheGets' = cacheGets
          /\ cachePosts' = cachePosts
          /\ lastSet'.store = "none"
               => /\ lastGet'.kind # "none" /\ lastGet'.net = "none"
                  /\ lastGet'.result = LocalNow(lastGet'.kind, lastGet'.key)
                  /\ localStorage' = localStorage]_vars

\* with the tier disabled, a set has been followed by a get of another key
\* that missed L1 and returned null, and no request is under way
C13_Witness ==
  /\ ~isEnabled
  /\ lastGet.kind # "none" /\ lastGet.net = "none" /\ lastGet.result = Null
  /\ lastGet.after.store # "none" /\ lastGet.after.ok
  /\ lastGet.after.key # lastGet.key
  /\ cacheGets = {} /\ cachePosts = {}
  /\ lastPost = NoPost

\* C14 (as claimed): when the write of a saveToLocalStorage call fails, the
\* other entries of that store are gone and the entry being written is in
\* L1 afterwards, by a second write into the emptied store (the code makes
\* one setItem call, so no second write exists whose failure could excuse
\* the absence).
C14_AsClaimed ==
  (lastSave.store # "none" /\ ~lastSave.ok)
    => /\ KeySet(ParseStore(localStorage[lastSave.store])) \subseteq {lastSave.key}
       /\ HasProp(ParseStore(localStorage[lastSave.store]), lastSave.key)

\* C6: generateKey returns the same key for every permutation of the inventory
\* array (same history, same action).
C6_KeyOrderIndependent ==
  DOMAIN kdKeys = {"orig", "shuf"} => kdKeys["orig"] = kdKeys["shuf"]

\* both keys derived, from an inventory that really was reordered
C6_Witness ==
  /\ DOMAIN kdKeys = {"orig", "shuf"}
  /\ kdShuffled # kdInventory
  /\ Len(kdInventory) = MaxInventory

(***************************************************************************)
(* The game: GameService under any client (Spec), and under the App        *)
(* (SpecApp).                                                              *)
(***************************************************************************)
Init == KeyIdle /\ GameCacheInit /\ GameInit /\ ServerIdle /\ ServiceIdle

Spec == Init /\ [][Next]_vars

(***************************************************************************)
(* GameService under any client, with fairness: every request to the cache *)
(* tiers and every call to a collaborator settles, and the digests that    *)
(* the key derivations await arrive.  The clients make MaxLiveCalls calls  *)
(* at most.                                                                *)
(***************************************************************************)
MaxLiveCalls == 2

LiveContinueStory ==
  /\ Len(calls) < MaxLiveCalls
  /\ \E choice \in ApiChoices, inventory \in ApiInventories :
       calls' = Append(calls, continueStory(calls, "api", ApiHistory, choice, inventory, FALSE))
  /\ ops' = Pad(ops, Len(calls'))
  /\ UNCHANGED <<pendingRequests, pendingImages, appVars, localStorage, isEnabled,
                 cachePosts, idleVars>>

LivePreloadChoices ==
  /\ Len(calls) + 2 <= MaxLiveCalls
  /\ calls' = preloadChoices(calls, ApiHistory, <<"burn", "leave">>, <<<<1>>, <<2>>>>)
  /\ ops' = Pad(ops, Len(calls'))
  /\ UNCHANGED <<pendingRequests, pendingImages, appVars, localStorage, isEnabled,
                 cachePosts, idleVars>>

LiveGenerateImage ==
  /\ Len(calls) < MaxLiveCalls
  /\ calls' = Append(calls, generateImage(calls, "api", "p1"))
  /\ ops' = Pad(ops, Len(calls'))
  /\ UNCHANGED <<pendingRequests, pendingImages, appVars, localStorage, isEnabled,
                 cachePosts, idleVars>>

LiveStoryKeyDerived == \E c \in 1..Len(calls) : ContinueStoryResume(c, MaxLiveCalls)

LiveStoryCacheAnswers ==
  \E o \in 1..Len(ops), writeOk \in RoomyWrites :
    \E answer \in GameAnswers("story") :
      FetchOperationCached(o, answer, writeOk, MaxLiveCalls)

LiveStoryGenerationSettles ==
  \E o \in 1..Len(ops), writeOk \in RoomyWrites :
    \E outcome \in ApiStoryOutcomes :
      FetchOperationGenerated(o, outcome, writeOk, MaxLiveCalls)

LiveNext ==
  \/ LiveContinueStory
  \/ LivePreloadChoices
  \/ LiveGenerateImage
  \/ LiveStoryKeyDerived
  \/ LiveStoryCacheAnswers
  \/ LiveStoryGenerationSettles
  \/ ImageKeyDerived
  \/ ImageCacheAnswers
  \/ ImageGenerationSettles

Settling ==
  /\ WF_vars(LiveStoryKeyDerived)
  /\ WF_vars(LiveStoryCacheAnswers)
  /\ WF_vars(LiveStoryGenerationSettles)
  /\ WF_vars(ImageKeyDerived)
  /\ WF_vars(ImageCacheAnswers)
  /\ WF_vars(ImageGenerationSettles)

SpecLive == Init /\ [][LiveNext]_vars /\ Settling

SpecApp == Init /\ [][AppNext]_vars

(***************************************************************************)
(* GameService under any client whose localStorage may be full (SpecFull). *)
(***************************************************************************)
FullStoryCacheAnswers ==
  \E o \in 1..Len(ops), writeOk \in Writes :
    \E answer \in GameAnswers("story") : FetchOperationCached(o, answer, writeOk, MaxCalls)

FullStoryGenerationSettles ==
  \E o \in 1..Len(ops), writeOk \in Writes :
    \E outcome \in ApiStoryOutcomes : FetchOperationGenerated(o, outcome, writeOk, MaxCalls)

FullNext ==
  \/ ApiContinueStory
  \/ ApiPreloadChoices
  \/ ApiGenerateImage
  \/ StoryKeyDerived
  \/ FullStoryCacheAnswers
  \/ FullStoryGenerationSettles
  \/ ImageKeyDerived
  \/ AppImageCacheAnswers
  \/ AppImageGenerationSettles

SpecFull == Init /\ [][FullNext]_vars


(***************************************************************************)
(* The remote store on its own (SpecServer).                               *)
(***************************************************************************)
InitServer == KeyIdle /\ CacheIdle /\ GameIdle /\ ServerInit /\ ServiceIdle

SpecServer == InitServer /\ [][ServerNext]_vars


(***************************************************************************)
(* The remote store with its snapshot file: startup, the save timer and    *)
(* restarts (SpecSnapshot).                                                *)
(***************************************************************************)
InitSnapshot == KeyIdle /\ CacheIdle /\ GameIdle /\ SnapshotInit /\ ServiceIdle

SpecSnapshot == InitSnapshot /\ [][SnapshotNext]_vars


(***************************************************************************)
(* GameService: settings and collaborator calls (SpecService).             *)
(***************************************************************************)
InitService == KeyIdle /\ CacheIdle /\ GameIdle /\ ServerIdle /\ ServiceInit

SpecService == InitService /\ [][ServiceNext]_vars

(***************************************************************************)
(* Claims about the in-flight registry and the prefetch.                   *)
(***************************************************************************)
StoryCalls == {c \in 1..Len(calls) : calls[c].kind = "story"}

\* fetchStory invocations of the executions the two calls awaited
InvokedFor(c1, c2) ==
  IF calls[c1].op = calls[c2].op THEN ops[calls[c1].op].invoked
  ELSE ops[calls[c1].op].invoked + ops[calls[c2].op].invoked

\* C1 (as claimed): when continueStory is called again with inputs of the
\* same key before an earlier call has settled, fetchStory is invoked once
\* for the calls together (not at all when the cache answers) and the callers
\* receive the same result, or the same error.
C1_AsClaimed ==
  \A c2 \in StoryCalls : \A c1 \in calls[c2].overlaps :
    (calls[c1].pc \in Settled /\ calls[c2].pc \in Settled)
      => /\ InvokedFor(c1, c2) <= 1
         /\ calls[c1].pc = calls[c2].pc
         /\ calls[c1].result = calls[c2].result

\* C2 (as claimed): once the prefetch for a choice has resolved, the
\* foreground request handleChoice makes for that choice from the same game
\* state has the prefetch's key and is answered without invoking fetchStory.
C2_AsClaimed ==
  \A c \in StoryCalls :
    (calls[c].origin = "choice" /\ calls[c].warm)
      => /\ \E p \in StoryCalls :
              /\ calls[p].origin = "prefetch" /\ calls[p].pc = "resolved"
              /\ calls[p].choice = calls[c].choice
              /\ calls[p].key = calls[c].key
         /\ (calls[c].pc \in Settled => ops[calls[c].op].invoked = 0)

\* C3: when fetchStory fails, the entry of the key is out of pendingRequests
\* before any caller receives the failure, and no call is ever handed the
\* promise of an execution that had already settled: a later call starts a
\* new execution.
C3_FailureAfterRemoval ==
  /\ \A o \in 1..Len(ops) :
       (ops[o].kind = "story" /\ ops[o].pc = "rejected")
         => ~(ops[o].key \in DOMAIN pendingRequests /\ pendingRequests[ops[o].key] = o)
  /\ \A c \in StoryCalls :
       /\ ~calls[c].lateJoin
       /\ calls[c].pc = "rejected" => ops[calls[c].op].pc = "rejected"

\* a call was rejected, and a call made after that with the same key runs a
\* new execution that has invoked fetchStory again
C3_Witness ==
  \E c1, c2 \in StoryCalls :
    /\ c1 < c2 /\ calls[c1].key = calls[c2].key /\ c1 \notin calls[c2].overlaps
    /\ calls[c1].pc = "rejected"
    /\ calls[c2].op # 0 /\ calls[c2].op # calls[c1].op
    /\ ops[calls[c2].op].invoked = 1

\* the registry holds exactly the executions of its kind that are in flight
RegistryExact(registry, kind) ==
  /\ \A k \in DOMAIN registry :
       /\ registry[k] \in 1..Len(ops)
       /\ ops[registry[k]].kind = kind
       /\ ops[registry[k]].key = k
       /\ ops[registry[k]].pc \in InFlight
  /\ \A o \in 1..Len(ops) :
       (ops[o].kind = kind /\ ops[o].pc \in InFlight)
         => (ops[o].key \in DOMAIN registry /\ registry[ops[o].key] = o)

\* C4: pendingRequests and pendingImages each hold an entry for a key exactly
\* while one execution for that key is in flight: at most one execution per
\* key is in flight, and no entry is left for one that has settled.
C4_PendingExactlyInFlight ==
  /\ RegistryExact(pendingRequests, "story")
  /\ RegistryExact(pendingImages, "image")

\* both registries hold an entry, the story one for a key whose earlier
\* execution failed and was removed
C4_Witness ==
  /\ pendingImages # EmptyMap
  /\ \E k \in DOMAIN pendingRequests : \E o \in 1..Len(ops) :
       /\ ops[o].kind = "story" /\ ops[o].key = k /\ ops[o].pc = "rejected"
       /\ pendingRequests[k] # o

\* C5: each execution settles by its own cache answer or its own
\* collaborator's outcome, whatever happens to the others: the failure of one
\* prefetch candidate leaves every execution in flight as it was, a call
\* receives the outcome of its own execution, and calls of different keys
\* never share an execution.
C5_SiblingIsolation ==
  /\ \A o \in 1..Len(ops) :
       IF ops[o].pc \notin Settled
       THEN ops[o].own = "none" /\ ops[o].result = Null
       ELSE /\ ops[o].own # "none"
            /\ ops[o].result = ops[o].ownValue
            /\ ops[o].pc = "rejected" <=> (ops[o].kind = "story" /\ ops[o].own = "failed")
  /\ \A c \in 1..Len(calls) :
       calls[c].pc \in Settled
         => (calls[c].pc = ops[calls[c].op].pc /\ calls[c].result = ops[calls[c].op].result)
  /\ \A c1, c2 \in 1..Len(calls) :
       (calls[c1].op # 0 /\ calls[c1].op = calls[c2].op)
         => (calls[c1].kind = calls[c2].kind /\ calls[c1].key = calls[c2].key)

\* one candidate was rejected while its sibling's execution and that of a
\* foreground call of another key were in flight, and both have resolved since
C5_Witness ==
  \E p1, p2, f \in StoryCalls :
    /\ calls[p1].origin = "prefetch" /\ calls[p2].origin = "prefetch"
    /\ calls[f].origin = "api"
    /\ calls[p1].pc = "rejected"
    /\ {calls[p2].op, calls[f].op} \subseteq ops[calls[p1].op].peers
    /\ calls[p2].op # calls[f].op
    /\ ops[calls[p2].op].pc = "resolved" /\ ops[calls[p2].op].own = "generated"
    /\ calls[f].pc = "resolved" /\ ops[calls[f].op].own = "generated"

\* C15 (as claimed): when a continueStory call has invoked fetchStory and
\* resolved, a call with the same inputs made after it settled resolves with
\* the same response and its execution does not invoke fetchStory; the first
\* call invoked it once.
C15_AsClaimed ==
  \A c1, c2 \in StoryCalls :
    (/\ c1 < c2 /\ calls[c1].key = calls[c2].key /\ c1 \notin calls[c2].overlaps
     /\ calls[c1].pc = "resolved" /\ ops[calls[c1].op].own = "generated"
     /\ calls[c2].pc \in Settled)
      => /\ ops[calls[c1].op].invoked = 1
         /\ calls[c2].pc = "resolved"
         /\ calls[c2].result = calls[c1].result
         /\ ops[calls[c2].op].invoked = 0

(***************************************************************************)
(* Claims about the remote store (SpecServer).                             *)
(***************************************************************************)
IsGet == srvLast.method = "GET"

IsPost == srvLast.method = "POST"

\* C16: after a POST of {key, data} has been answered with success, a GET
\* for that key returns exactly that data, as long as the key has not been
\* overwritten or evicted in between.
C16_RoundTrip ==
  (IsGet /\ srvLast.key.type = "string" /\ srvLast.key.s \in DOMAIN srvAcked)
    => /\ srvLast.response.status = 200
       /\ srvLast.response.body.success = TRUE
       /\ "data" \in DOMAIN srvLast.response.body
       /\ srvLast.response.body.data = srvAcked[srvLast.key.s]

\* a GET found the data of a POST that replaced an entry of the snapshot
C16_Witness ==
  /\ IsGet
  /\ srvLast.key = Str("old1")
  /\ "old1" \in DOMAIN srvAcked
  /\ srvAcked["old1"] = EntryA
  /\ srvLast.response.status = 200

\* the entry the store holds under a key, if any
Held(store, key) ==
  {store[n].v : n \in {m \in 1..Len(store) :
                         /\ store[m].lo = 0
                         /\ key.type = "string"
                         /\ store[m].k = key.s}}

\* C17: a GET is answered 200 with the stored entry if and only if the key
\* is present in the store at that moment, and 404 "Not found" otherwise.
C17_GetAnswers ==
  IsGet =>
    IF Held(srvLast.before, srvLast.key) # {}
    THEN /\ srvLast.response.status = 200
         /\ "data" \in DOMAIN srvLast.response.body
         /\ {srvLast.response.body.data} = Held(srvLast.before, srvLast.key)
    ELSE /\ srvLast.response.status = 404
         /\ srvLast.response.body.success = FALSE
         /\ srvLast.response.body.error = "Not found"

\* a GET missed a key the snapshot held, after the pass removed it, while the
\* next older entry was still there
C17_Witness ==
  /\ IsGet
  /\ srvLast.key = Str("edgeIn")
  /\ srvLast.response.status = 404
  /\ Held(cache, Str("edgeOut")) # {}

\* unparsable body, missing key or missing data
Malformed(body) ==
  \/ ~body.parses
  \/ body.value.type # "object"
  \/ "key" \notin DOMAIN body.value
  \/ "data" \notin DOMAIN body.value

\* C18: a POST with a malformed payload (unparsable body, missing key or
\* missing data) is answered with 400 and leaves the store's contents and
\* insertion order unchanged.
C18_MalformedRejected ==
  (IsPost /\ Malformed(srvLast.body))
    => /\ srvLast.response.status = 400
       /\ cache = srvLast.before

\* a body with a key and no data was rejected by a store that holds entries
C18_Witness ==
  /\ IsPost
  /\ srvLast.body = JsonText([type |-> "object", key |-> Str("new1")])
  /\ srvLast.response.status = 400
  /\ DOMAIN srvAcked # {}
  /\ cache # <<>>

\* C19 (as claimed): a body that contains a key and a data field is answered
\* with 200 and the entry is stored, for every JSON value of data (false, 0,
\* the empty string and an empty object included); 400 is returned only when
\* key or data is missing.
C19_AsClaimed ==
  IsPost =>
    /\ ~Malformed(srvLast.body)
         => /\ srvLast.response.status = 200
            /\ Held(cache, srvLast.key) = {srvLast.body.value.data}
    /\ srvLast.response.status = 400 => Malformed(srvLast.body)

\* the newest m entries of a store
RECURSIVE KeepNewest(_, _)
KeepNewest(store, m) ==
  IF m <= 0 \/ store = <<>> THEN <<>>
  ELSE LET seg == store[Len(store)]
           older == SubSeq(store, 1, Len(store) - 1)
       IN  IF SegSize(seg) <= m
           THEN Append(KeepNewest(older, m - SegSize(seg)), seg)
           ELSE <<[seg EXCEPT !.lo = seg.hi - m + 1]>>

\* C20: when a write leaves the size estimate (entry count times the fixed
\* average entry size) above the byte budget, exactly the oldest
\* ceil(10% of the entry count) keys by insertion order are removed in that
\* one pass and no other key is removed; when the estimate does not exceed
\* the budget no key is removed.
C20_EvictsOldestTenth ==
  (IsPost /\ srvLast.response.status = 200)
    => /\ NamedKeys(srvLast.inserted) = NamedKeys(srvLast.before) \cup {srvLast.key.s}
       /\ cacheSize(srvLast.inserted) =
            cacheSize(srvLast.before)
              + (IF srvLast.key.s \in NamedKeys(srvLast.before) THEN 0 ELSE 1)
       /\ cache = KeepNewest(srvLast.inserted,
                             cacheSize(srvLast.inserted) - Due(srvLast.inserted))

\* a write brought the store to the size at which the estimate exceeds the
\* budget; the pass removed the entry at position EvictBatch and kept the
\* entry after it
C20_Witness ==
  /\ IsPost
  /\ srvLast.response.status = 200
  /\ cacheSize(srvLast.inserted) = EvictAt
  /\ cacheSize(cache) = EvictAt - EvictBatch
  /\ Held(srvLast.inserted, Str("edgeIn")) # {}
  /\ Held(cache, Str("edgeIn")) = {}
  /\ Held(cache, Str("edgeOut")) # {}

\* the entries of a store other than the one under a key, in their order
Others(store, k) == SelectSeq(store, LAMBDA seg : ~(seg.lo = 0 /\ seg.k = k))

\* the entries of the store that no POST of the run has written
Unwritten(store) ==
  {n \in 1..Len(store) : store[n].lo > 0 \/ store[n].k \notin DOMAIN srvAcked}

\* C21: a POST for a key that is already present moves that key to the
\* most-recently-inserted position, the other entries keeping their order, so
\* every entry inserted before that POST and not rewritten since is older
\* than it and is evicted before it.
C21_ReinsertRefreshes ==
  /\ (IsPost /\ srvLast.response.status = 200
        /\ srvLast.key.s \in NamedKeys(srvLast.before))
       => /\ srvLast.inserted[Len(srvLast.inserted)].lo = 0
          /\ srvLast.inserted[Len(srvLast.inserted)].k = srvLast.key.s
          /\ Others(srvLast.inserted, srvLast.key.s) = Others(srvLast.before, srvLast.key.s)
  /\ \A n \in Unwritten(cache) : \A m \in 1..Len(cache) :
       (m \notin Unwritten(cache)) => n < m

\* the oldest entry of the snapshot was posted again and a later write ran the
\* pass: the entry is still there, two entries that were newer than it are not
C21_Witness ==
  /\ IsPost
  /\ srvLast.response.status = 200
  /\ srvLast.key = Str("new1")
  /\ Due(srvLast.inserted) > 0
  /\ "old1" \in DOMAIN srvAcked
  /\ Held(cache, Str("old1")) # {}
  /\ Held(cache, Str("edgeIn")) = {}
  /\ Held(cache, Str("edgeOut")) = {}

(***************************************************************************)
(* Claims about the snapshot of the remote store (SpecSnapshot).           *)
(***************************************************************************)
IsBoot == srvLast.method = "BOOT"

\* C22: when the snapshot file is missing or cannot be parsed, the server
\* starts with an empty store and serves requests; startup never fails
\* because of the snapshot.
C22_StartupSurvivesSnapshot ==
  /\ srvUp
  /\ (IsBoot /\ (~disk.exists \/ ~disk.text.parses)) => cache = <<>>

\* a server started on an unparsable file has answered a GET
C22_Witness ==
  /\ disk = File(Garbage)
  /\ ~srvSaved.done
  /\ IsGet
  /\ srvLast.response.status = 404
  /\ srvLast.before = <<>>

\* the key-to-entry mapping of a store
Mapping(store) ==
  [named |-> {<<store[n].k, store[n].v>> : n \in {m \in 1..Len(store) : store[m].lo = 0}},
   others |-> UNION {store[n].lo..store[n].hi : n \in {m \in 1..Len(store) : store[m].lo > 0}}]

IsFetch == svcLast.op = "fetchStory"

\* the call got as far as the collaborator's reply
Answered ==
  /\ IsFetch
  /\ svcLast.reply.kind = "content"
  /\ IF svcLast.arg.provider = "openai" THEN svcLast.arg.apiKey # "" ELSE geminiClient

\* the text is not one JSON.parse turns into an object
CannotParse(text) ==
  \/ text.type # "string"
  \/ text.empty
  \/ ~text.json.parses
  \/ text.json.value.type # "object"

\* C24 (as claimed): when the collaborator's text cannot be parsed as the
\* structured payload, the call resolves with the fixed fallback payload (a
\* narrative, exactly one retry option, isGameOver false) instead of
\* rejecting.
C24_AsClaimed ==
  (Answered /\ CannotParse(svcLast.reply.text))
    => /\ svcLast.outcome.ok
       /\ svcLast.outcome.value = Fallback

\* C30 (as claimed): a GameSettings value whose useSharedCache is undefined
\* leaves the shared tier enabled both when it is passed to the GameService
\* constructor and when it is passed to updateSettings.
C30_AsClaimed ==
  (/\ svcLast.op \in {"constructor", "updateSettings"}
   /\ Prop(svcLast.arg, "useSharedCache") = Undefined)
    => isEnabled


(***************************************************************************)
(* Claims about the presentation and the prefetch (SpecApp, Spec).         *)
(***************************************************************************)
\* the continueStory calls a step adds on behalf of preloadChoices
NewPrefetches ==
  {c \in (Len(calls) + 1)..Len(calls') :
     calls'[c].kind = "story" /\ calls'[c].origin = "prefetch"}

\* C25: preloadChoices for a response is invoked only after the Typewriter
\* has emitted every character of that response's narrative, and it is never
\* invoked for a response that ended the game.
C25_PrefetchAfterPresentation ==
  [][NewPrefetches # {} =>
       /\ typewriter = "typing"
       /\ currentResponse # Null
       /\ typed = TextLength(currentResponse.narrative)
       /\ ~currentResponse.isGameOver
       /\ gameState.history # <<>>
       /\ gameState.history[Len(gameState.history)] =
            [role |-> "model", text |-> currentResponse.narrative]
       /\ \A c \in NewPrefetches :
            /\ calls'[c].history = gameState.history
            /\ calls'[c].choice \in Range(currentResponse.choices)]_vars

\* the narrative of a scene has been typed to its end and the candidates of
\* its choices are on their way
C25_Witness ==
  /\ typewriter = "done"
  /\ typed = TextLength(currentResponse.narrative)
  /\ typed > 0
  /\ \E c \in 1..Len(calls) :
       /\ calls[c].kind = "story" /\ calls[c].origin = "prefetch"
       /\ calls[c].history = gameState.history

\* the calls that a step settles with an execution that failed: a story call
\* is rejected, an image call receives the null that fetchOp's catch returns
NewlyFailed ==
  {c \in 1..Len(calls) :
     /\ calls[c].pc \notin Settled /\ calls'[c].pc \in Settled
     /\ ops'[calls'[c].op].own = "failed"}

\* C26: preloadChoices returns before any of its candidates settles (each is
\* still at its first await when the caller goes on), and a step in which a
\* candidate's narrative or image stage fails, and no call made by startGame
\* or handleChoice fails, leaves the state of the App as it was.
C26_PrefetchDetached ==
  [][/\ NewPrefetches # {} =>
          /\ \A c \in NewPrefetches :
               calls'[c].pc = "keygen" /\ ops'[c] = NoExecution
          /\ \A c \in 1..Len(calls) : calls'[c] = calls[c]
          /\ typewriter' = "done"
          /\ gameState' = gameState
     /\ (/\ \E c \in NewlyFailed : calls[c].origin = "prefetch"
         /\ \A c \in NewlyFailed : calls[c].origin \notin {"start", "choice"})
          => UNCHANGED appVars]_vars

\* a candidate's narrative stage and another candidate's image stage have
\* failed, and the App shows the scene without an error
C26_Witness ==
  /\ \E c \in 1..Len(calls) :
       calls[c].kind = "story" /\ calls[c].origin = "prefetch" /\ calls[c].pc = "rejected"
  /\ \E c \in 1..Len(calls) :
       /\ calls[c].kind = "image" /\ calls[c].origin = "prefetch"
       /\ calls[c].pc \in Settled /\ ops[calls[c].op].own = "failed"
  /\ typewriter = "done"
  /\ ~gameState.error /\ ~gameState.loadingText

(***************************************************************************)
(* Claims about the key derivation's inputs (SpecKey).                     *)
(***************************************************************************)
\* C27 (as claimed): deriving a cache key leaves the caller's conversation
\* history and inventory array with the same elements in the same order.
C27_AsClaimed ==
  [][kdKeys' # kdKeys =>
       /\ kdHistory' = kdHistory
       /\ kdInventory' = kdInventory
       /\ kdShuffled' = kdShuffled]_vars

\* C28: the key depends only on the role and text of each turn, the action
\* and the sorted inventory: turns that carry a further field derive the key
\* of the turns without it.
C28_KeyIgnoresOtherFields ==
  ({"orig", "extra"} \subseteq DOMAIN kdKeys) => kdKeys["extra"] = kdKeys["orig"]

\* both keys derived from a history whose turns differ in the further field
C28_Witness ==
  /\ {"orig", "extra"} \subseteq DOMAIN kdKeys
  /\ Len(kdHistory) = MaxKdHistory
  /\ \A extra \in Extras : Decorated(kdHistory, extra) # kdHistory

(***************************************************************************)
(* Claims about L1 eviction on a rewrite (SpecCache).                      *)
(***************************************************************************)
\* C29 (as claimed, for the writes that localStorage accepts): a write for a
\* key that is already in the L1 store, a full store included, removes no
\* other key's entry.
C29_AsClaimed ==
  (/\ lastSave.store # "none"
   /\ lastSave.ok
   /\ ~lastSave.isNew)
    => lastSave.lost \subseteq {lastSave.key}

(***************************************************************************)
(* Claims about what the game writes to the cache (Spec, SpecApp).         *)
(***************************************************************************)
\* the story executions whose generation a step sees fail
GenerationFails ==
  {o \in 1..Len(ops) :
     ops[o].kind = "story" /\ ops[o].pc = "generate" /\ ops'[o].pc = "rejected"}

\* C31: when the generation call of a continueStory execution fails, the
\* step writes nothing: the L1 stores and the requests sent to L2 are what
\* they were before.
C31_NoWriteOnFailure ==
  [][GenerationFails # {} =>
       /\ localStorage' = localStorage
       /\ cachePosts' = cachePosts]_vars

\* a generation has failed and neither tier holds anything for its key
C31_Witness ==
  \E o \in 1..Len(ops) :
    /\ ops[o].kind = "story" /\ ops[o].pc = "rejected" /\ ops[o].own = "failed"
    /\ ops[o].invoked > 0
    /\ ~Truthy(getStoryLocal(localStorage, ops[o].key))
    /\ \A p \in cachePosts : p.key # ops[o].key

(***************************************************************************)
(* Claims about the remote store's reads (SpecServer).                     *)
(***************************************************************************)
\* C32: a GET, hit or miss, leaves the store as it was: the same keys, the
\* same entries, in the same insertion order.
C32_GetHasNoSideEffects ==
  IsGet => cache = srvLast.before

\* a GET has hit an entry that is not the newest of a store with other entries
C32_Witness ==
  /\ IsGet
  /\ srvLast.response.status = 200
  /\ Len(cache) > 1
  /\ cache[Len(cache)].k # srvLast.key.s

(***************************************************************************)
(* Claims about the image requests (Spec).                                 *)
(***************************************************************************)
ImageCalls == {c \in 1..Len(calls) : calls[c].kind = "image"}

\* C33 (as claimed): when generateImage is called again with the same prompt
\* before an earlier call has settled, the image generator is invoked at most
\* once for the calls together and the callers receive the same result.
C33_AsClaimed ==
  \A c2 \in ImageCalls : \A c1 \in calls[c2].overlaps :
    (calls[c1].pc \in Settled /\ calls[c2].pc \in Settled)
      => /\ InvokedFor(c1, c2) <= 1
         /\ calls[c1].result = calls[c2].result

\* the image executions whose generation a step sees fail or give no image
NoImage ==
  {o \in 1..Len(ops) :
     /\ ops[o].kind = "image" /\ ops[o].pc = "generate" /\ ops'[o].pc \in Settled
     /\ ops'[o].own # "generated" \/ ~Truthy(ops'[o].ownValue)}

\* C34 (as claimed): when the image generation fails or produces no image,
\* generateImage resolves to null, writes nothing to L1 or L2, and leaves no
\* pending entry, so that a later call with the prompt generates again.
C34_AsClaimed ==
  [][\A o \in NoImage :
       /\ ops'[o].pc = "resolved"
       /\ ops'[o].result = Null
       /\ localStorage' = localStorage
       /\ cachePosts' = cachePosts
       /\ ops[o].key \notin DOMAIN pendingImages']_vars

(***************************************************************************)
(* Claims about the hand-over from the registry to L1 (Spec, where every   *)
(* L1 write is accepted and no store reaches its capacity).                *)
(***************************************************************************)
\* the story executions whose generation has succeeded
Generated(executions) ==
  {p \in 1..Len(executions) :
     /\ executions[p].kind = "story" /\ executions[p].pc = "resolved"
     /\ executions[p].own = "generated"}

\* the story executions for which a step invokes fetchStory
NewlyInvoked ==
  {o \in 1..Len(ops) : ops[o].kind = "story" /\ ops'[o].invoked > ops[o].invoked}

\* C35: once a generation for a key has succeeded and L1 has accepted the
\* write, the key is in pendingRequests or in L1 at every later instant, and
\* fetchStory is not invoked for that key again.
C35_NoGap ==
  [][/\ \A p \in Generated(ops') :
          \/ ops'[p].key \in DOMAIN pendingRequests'
          \/ Truthy(getStoryLocal(localStorage', ops'[p].key))
     /\ \A o \in NewlyInvoked :
          \A p \in Generated(ops) : ops[p].key # ops[o].key]_vars

\* after a successful generation a later execution for the same key was
\* answered by L1 without an invocation
C35_Witness ==
  \E p \in Generated(ops) : \E q \in 1..Len(ops) :
    /\ q > p
    /\ ops[q].kind = "story" /\ ops[q].key = ops[p].key
    /\ ops[q].pc = "resolved" /\ ops[q].own = "cache" /\ ops[q].invoked = 0
    /\ ~ops[q].viaL2

\* the entries of the L1 text store
L1Stories ==
  LET store == ParseStore(localStorage[L1_CACHE_KEY_TEXT])
  IN  {store[n].v : n \in 1..Len(store)}

\* C36 (as claimed): the fallback payload that safeParse substitutes for a
\* malformed response is never stored, neither in L1 nor in L2.
C36_AsClaimed ==
  /\ StoryOf(Fallback) \notin L1Stories
  /\ \A p \in cachePosts : p.data # StoryOf(Fallback)

(***************************************************************************)
(* Claims about the registries' liveness (SpecLive).                       *)
(***************************************************************************)
\* C37: when every request and every collaborator call settles, both
\* registries are empty from some instant on (the calls of a run are
\* finitely many), and every execution in flight settles.
C37_RegistriesDrain ==
  /\ <>[](pendingRequests = EmptyMap /\ pendingImages = EmptyMap)
  /\ \A o \in 1..MaxLiveCalls :
       (o <= Len(ops) /\ ops[o].pc \in InFlight)
         ~> (/\ o <= Len(ops)
             /\ ops[o].pc \in Settled
             /\ ops[o].key \notin DOMAIN pendingRequests
             /\ ops[o].key \notin DOMAIN pendingImages)

\* both registries are empty after executions of both kinds have settled,
\* one of them with a failure
C37_Witness ==
  /\ pendingRequests = EmptyMap /\ pendingImages = EmptyMap
  /\ \E o \in 1..Len(ops) : ops[o].kind = "story" /\ ops[o].pc = "rejected"
  /\ \E o \in 1..Len(ops) : ops[o].kind = "image" /\ ops[o].pc \in Settled
  /\ \A c \in 1..Len(calls) : calls[c].pc \in Settled

(***************************************************************************)
(* Claims about the remote store's answers to every method (SpecServer).   *)
(***************************************************************************)
\* C38 (as claimed): every request to /api/cache receives a response,
\* whatever its method.
C38_AsClaimed ==
  srvLast.method \notin {"none", "BOOT"} => srvLast.response # Unanswered

C40_AsClaimed ==
  ("recast" \in DOMAIN kdKeys /\ Recast(kdHistory) # kdHistory)
    => /\ kdKeys["recast"].key # kdKeys["memo"]
       /\ ~kdKeys["recast"].hit

====
